---- MODULE Spec2Model ----
(***************************************************************************)
(* ConsoleVerse: the Console Engine (consoleverse/console.py) as a state   *)
(* machine.  The state is the class-level configuration _ConsoleConfig,    *)
(* the selected language, the stack of running block-decorated calls, and  *)
(* an observation of the last API call: its arguments, the configuration   *)
(* it started from, the characters it wrote to standard output, the        *)
(* exception it raised and the number of times it cleared the screen.      *)
(*                                                                         *)
(* A Python str is modelled as a sequence of one-character strings, so     *)
(* that slicing, repetition, upper() and len() are computed, not assumed.  *)
(***************************************************************************)
EXTENDS Integers, Sequences, FiniteSets, TLC

VARIABLES
    config,     \* _ConsoleConfig's class attributes (console.py)
    facade,     \* ConsoleConfig's class attributes (__init__.py)
    facade_out, \* what the last call printed through the functions of __init__.py
    language,   \* lang.lang(): "en" or "es"
    calls,      \* running calls of functions wrapped by @block, innermost last
    opened,     \* start_block calls not yet matched by an end_block, innermost last
    ghost,      \* additions minus removals since the last init
    call,       \* the last API call: [name, a] (a: its arguments)
    pre,        \* config when the last call started
    out,        \* what the last call printed
    exc,        \* the exception the last call raised to its caller
    cleared,    \* how many times the last call ran clear_screen
    ret,        \* the value the last call returned
    matched,    \* the start_block call the last end_block closed
    closed,     \* the block-decorated call the last step ended
    unbalanced  \* the indentation an exception left behind, while only prints follow

vars ==
    << config, facade, facade_out, language, calls, opened, ghost, call, pre, out, exc, cleared, ret,
       matched, closed, unbalanced >>

(***************************************************************************)
(* Bounds of the model.                                                    *)
(***************************************************************************)
\* longest indentation string add_lvl is allowed to build
MaxIndent == 4
\* largest indentation_size passed to init
MaxSize == 3
\* deepest nesting of block-decorated calls
MaxCalls == 2
\* deepest nesting of start_block calls that are tracked
MaxOpen == 2
\* largest size passed to line
MaxLine == 2
MaxDepth == 2
MaxWidth == 3

(***************************************************************************)
(* Python str operations.                                                  *)
(***************************************************************************)
\* s * n
Repeat(s, n) ==
    IF n <= 0 THEN <<>> ELSE [i \in 1..(Len(s) * n) |-> s[((i - 1) % Len(s)) + 1]]

\* s[:k] for any integer k (a negative k counts from the end)
SliceTo(s, k) ==
    LET n == Len(s)
        e == IF k >= 0
               THEN (IF k > n THEN n ELSE k)
               ELSE (IF n + k < 0 THEN 0 ELSE n + k)
    IN  SubSeq(s, 1, e)

\* s[k:] for k >= 0
SliceFrom(s, k) ==
    IF k >= Len(s) THEN <<>> ELSE SubSeq(s, k + 1, Len(s))

LowerCase ==
    << "a", "b", "c", "d", "e", "f", "g", "h", "i", "j", "k", "l", "m",
       "n", "o", "p", "q", "r", "s", "t", "u", "v", "w", "x", "y", "z" >>

UpperCase ==
    << "A", "B", "C", "D", "E", "F", "G", "H", "I", "J", "K", "L", "M",
       "N", "O", "P", "Q", "R", "S", "T", "U", "V", "W", "X", "Y", "Z" >>

\* the upper-case letter of each lower-case letter
ToUpper ==
    [c \in { LowerCase[i] : i \in DOMAIN LowerCase } |->
        UpperCase[CHOOSE i \in DOMAIN LowerCase : LowerCase[i] = c]]

UpperChar(c) ==
    IF c \in DOMAIN ToUpper THEN ToUpper[c] ELSE c

\* s.upper()
upper(s) ==
    [i \in 1..Len(s) |-> UpperChar(s[i])]

Digit ==
    << "0", "1", "2", "3", "4", "5", "6", "7", "8", "9" >>

\* str(n) for an integer n >= 0
RECURSIVE str(_)
str(n) ==
    IF n < 10 THEN << Digit[n + 1] >> ELSE str(n \div 10) \o << Digit[(n % 10) + 1] >>

\* sep.join(values)
RECURSIVE join(_, _)
join(sep, values) ==
    IF values = <<>> THEN <<>>
    ELSE IF Len(values) = 1 THEN values[1]
    ELSE values[1] \o sep \o join(sep, Tail(values))

\* the object None, where a str is expected
None == << "<None>" >>

NL == "\n"
ESC == "\\033"

(***************************************************************************)
(* Exceptions.                                                             *)
(***************************************************************************)
NoException == [type |-> "none", arg |-> <<>>]

Raise(type, arg) == [type |-> type, arg |-> arg]

(***************************************************************************)
(* term/new_colors.py: the colour, background and style tables.            *)
(***************************************************************************)
RESET_FORMAT_COLOR == 0

BLACK_CODE == 30
RED_CODE == 31
GREEN_CODE == 32
YELLOW_CODE == 33
BLUE_CODE == 34
MAGENTA_CODE == 35
CYAN_CODE == 36
WHITE_CODE == 37

BG_BLACK_CODE == 40
BG_RED_CODE == 41
BG_GREEN_CODE == 42
BG_YELLOW_CODE == 43
BG_BLUE_CODE == 44
BG_MAGENTA_CODE == 45
BG_CYAN_CODE == 46
BG_WHITE_CODE == 47

BOLD_CODE == 1
UNDERLINE_CODE == 4
BLINK_CODE == 5
REVERSE_CODE == 7
CONCEAL_CODE == 8

\* START_FORMAT_COLOR.format(color)
start(color) ==
    << ESC, "[" >> \o str(color) \o << "m" >>

\* END_FORMAT_COLOR
reset ==
    start(RESET_FORMAT_COLOR)

COLORS ==
    (<< "B", "L", "A", "C", "K" >> :> start(BLACK_CODE))
    @@ (<< "R", "E", "D" >> :> start(RED_CODE))
    @@ (<< "G", "R", "E", "E", "N" >> :> start(GREEN_CODE))
    @@ (<< "Y", "E", "L", "L", "O", "W" >> :> start(YELLOW_CODE))
    @@ (<< "B", "L", "U", "E" >> :> start(BLUE_CODE))
    @@ (<< "M", "A", "G", "E", "N", "T", "A" >> :> start(MAGENTA_CODE))
    @@ (<< "C", "Y", "A", "N" >> :> start(CYAN_CODE))
    @@ (<< "W", "H", "I", "T", "E" >> :> start(WHITE_CODE))

BACKGROUNDS ==
    (<< "B", "G", "_", "B", "L", "A", "C", "K" >> :> start(BG_BLACK_CODE))
    @@ (<< "B", "G", "_", "R", "E", "D" >> :> start(BG_RED_CODE))
    @@ (<< "B", "G", "_", "G", "R", "E", "E", "N" >> :> start(BG_GREEN_CODE))
    @@ (<< "B", "G", "_", "Y", "E", "L", "L", "O", "W" >> :> start(BG_YELLOW_CODE))
    @@ (<< "B", "G", "_", "B", "L", "U", "E" >> :> start(BG_BLUE_CODE))
    @@ (<< "B", "G", "_", "M", "A", "G", "E", "N", "T", "A" >> :> start(BG_MAGENTA_CODE))
    @@ (<< "B", "G", "_", "C", "Y", "A", "N" >> :> start(BG_CYAN_CODE))
    @@ (<< "B", "G", "_", "W", "H", "I", "T", "E" >> :> start(BG_WHITE_CODE))

STYLES ==
    (<< "B", "O", "L", "D" >> :> start(BOLD_CODE))
    @@ (<< "U", "N", "D", "E", "R", "L", "I", "N", "E" >> :> start(UNDERLINE_CODE))
    @@ (<< "B", "L", "I", "N", "K" >> :> start(BLINK_CODE))
    @@ (<< "R", "E", "V", "E", "R", "S", "E" >> :> start(REVERSE_CODE))
    @@ (<< "C", "O", "N", "C", "E", "A", "L" >> :> start(CONCEAL_CODE))

Contains_exact_case(table, name) ==
    IF name = None
      THEN [exc |-> Raise("AttributeError", None), val |-> FALSE]
      ELSE [exc |-> NoException, val |-> name \in DOMAIN table]

\* __contains__ of a table: name.upper() in table; None has no upper()
Contains(table, name) ==
    IF name = None
      THEN [exc |-> Raise("AttributeError", None), val |-> FALSE]
      ELSE [exc |-> NoException, val |-> upper(name) \in DOMAIN table]

\* __getitem__ of a table: table[name.upper()], or the table's error
GetItem(table, error, name) ==
    IF upper(name) \in DOMAIN table
      THEN [exc |-> NoException, val |-> table[upper(name)]]
      ELSE [exc |-> Raise(error, name), val |-> <<>>]

\* `table[name] if name in table else ''`
Lookup(table, error, name) ==
    LET has == Contains(table, name)
    IN  IF has.exc # NoException THEN [exc |-> has.exc, val |-> <<>>]
        ELSE IF has.val THEN GetItem(table, error, name)
        ELSE [exc |-> NoException, val |-> <<>>]

(***************************************************************************)
(* console.py: _ConsoleConfig.                                             *)
(***************************************************************************)
\* the class attributes as the class statement sets them
ConsoleConfig ==
    [ indentation_type   |-> << " " >>,
      indentation_lvl    |-> <<>>,
      indentantion_size  |-> 2,
      is_init            |-> FALSE,
      autoreset_colors   |-> TRUE ]

\* what an operation hands back: the configuration it leaves, what it printed,
\* the exception it raised (NoException: it returned) and its clear_screen calls
Result(c, printed, e, n) ==
    [config |-> c, out |-> printed, exc |-> e, cleared |-> n]

\* r, followed by the operation that gave s from r.config
Chain(r, s) ==
    [config |-> s.config, out |-> r.out \o s.out, exc |-> s.exc,
     cleared |-> r.cleared + s.cleared]

\* two statements in a row: the second one, which gave s from r.config, runs
\* unless the first one raised
Then(r, s) ==
    IF r.exc # NoException THEN r ELSE Chain(r, s)

\* _ConsoleConfig.init that keeps the indentation of the run it interrupts
ConsoleConfig_init_keeps_lvl(c, clear, indentation_type, indentation_size, autoreset_colors) ==
    Result([ indentation_type   |-> indentation_type,
             indentation_lvl    |-> c.indentation_lvl,
             indentantion_size  |-> indentation_size,
             is_init            |-> TRUE,
             autoreset_colors   |-> autoreset_colors ],
           <<>>, NoException, IF clear THEN 1 ELSE 0)

\* _ConsoleConfig.init
ConsoleConfig_init(c, clear, indentation_type, indentation_size, autoreset_colors) ==
    Result([ indentation_type   |-> indentation_type,
             indentation_lvl    |-> <<>>,
             indentantion_size  |-> indentation_size,
             is_init            |-> TRUE,
             autoreset_colors   |-> autoreset_colors ],
           <<>>, NoException, IF clear THEN 1 ELSE 0)

\* _ConsoleConfig.reset_config that leaves the initialized flag alone
ConsoleConfig_reset_config_keeps_init(c) ==
    [ indentation_type   |-> << " " >>,
      indentation_lvl    |-> <<>>,
      indentantion_size  |-> 2,
      is_init            |-> c.is_init,
      autoreset_colors   |-> TRUE ]

\* _ConsoleConfig.reset_config
ConsoleConfig_reset_config(c) ==
    [ indentation_type   |-> << " " >>,
      indentation_lvl    |-> <<>>,
      indentantion_size  |-> 2,
      is_init            |-> FALSE,
      autoreset_colors   |-> TRUE ]

\* _init that keeps the indentation built before the first print
ConsoleConfig_lazy_init_keeps_lvl(c) ==
    IF ~c.is_init THEN [c EXCEPT !.is_init = TRUE] ELSE c

\* _ConsoleConfig._init
ConsoleConfig_lazy_init(c) ==
    IF ~c.is_init
      THEN [c EXCEPT !.is_init = TRUE, !.indentation_lvl = <<>>]
      ELSE c

\* _ConsoleConfig.add_indentation_lvl
add_indentation_lvl(c) ==
    [c EXCEPT !.indentation_lvl =
        c.indentation_lvl \o Repeat(c.indentation_type, c.indentantion_size)]

\* del_indentation_lvl that strips one character whatever the size
del_indentation_lvl_one_char(c) ==
    [c EXCEPT !.indentation_lvl = SliceTo(c.indentation_lvl, -1)]

\* del_indentation_lvl that strips from the front
del_indentation_lvl_front(c) ==
    [c EXCEPT !.indentation_lvl = SliceFrom(c.indentation_lvl, c.indentantion_size)]

\* _ConsoleConfig.del_indentation_lvl
del_indentation_lvl(c) ==
    [c EXCEPT !.indentation_lvl = SliceTo(c.indentation_lvl, 0 - c.indentantion_size)]

(***************************************************************************)
(* console.py: the module-level operations.                                *)
(***************************************************************************)
\* init
init(c, clear, indentation_type, indentation_size, autoreset_colors) ==
    LET r == ConsoleConfig_init(c, clear, indentation_type, indentation_size,
                                autoreset_colors)
    IN  Result([r.config EXCEPT !.is_init = TRUE], <<>>, NoException,
               r.cleared + (IF clear THEN 1 ELSE 0))

\* reset_config
reset_config(c) ==
    Result(ConsoleConfig_reset_config(c), <<>>, NoException, 0)

\* add_lvl
add_lvl(c) ==
    Result(add_indentation_lvl(c), <<>>, NoException, 0)

\* del_lvl
del_lvl(c) ==
    Result(del_indentation_lvl(c), <<>>, NoException, 0)

\* _colorize: [exc, val]
colorize(text, color, bg_color, style, reset_console_colors) ==
    LET ctext     == Lookup(COLORS, "ColorTextError", color)
        cbaground == Lookup(BACKGROUNDS, "ColorBackgroundError", bg_color)
        stext     == Lookup(STYLES, "ColorStyleError", style)
    IN  IF ctext.exc # NoException THEN ctext
        ELSE IF cbaground.exc # NoException THEN cbaground
        ELSE IF stext.exc # NoException THEN stext
        ELSE [exc |-> NoException,
              val |-> ctext.val \o cbaground.val \o stext.val \o text
                      \o (IF reset_console_colors THEN reset ELSE <<>>)]

\* __to_string: the values are already text
to_string(values, sep) ==
    join(sep, values)

\* print(colorized_text, end=endl), or the exception _colorize raised
Printed(c, colorized_text, endl) ==
    IF colorized_text.exc # NoException
      THEN Result(c, <<>>, colorized_text.exc, 0)
      ELSE Result(c, colorized_text.val \o endl, NoException, 0)

\* println that initializes on every call
println_always_inits(c, message, endl, withlvl, color, bg_color, reset_all_colors, style, sep) ==
    LET c1   == [c EXCEPT !.is_init = TRUE, !.indentation_lvl = <<>>]
        text == to_string(message, sep)
        msg  == IF withlvl THEN c1.indentation_lvl \o text ELSE text
    IN  Printed(c1, colorize(msg, color, bg_color, style, reset_all_colors), endl)

\* println
println(c, message, endl, withlvl, color, bg_color, reset_all_colors, style, sep) ==
    LET c1   == ConsoleConfig_lazy_init(c)
        text == to_string(message, sep)
        msg  == IF withlvl THEN c1.indentation_lvl \o text ELSE text
    IN  Printed(c1, colorize(msg, color, bg_color, style, reset_all_colors), endl)

\* new_line
new_line(c) ==
    println(c, << <<>> >>, << NL >>, FALSE, <<>>, <<>>, TRUE, <<>>, << " " >>)

START_LANGS ==
    [en |-> << "S", "T", "A", "R", "T" >>, es |-> << "I", "N", "I", "C", "I", "A" >>]

END_LANGS ==
    [en |-> << "E", "N", "D" >>, es |-> << "T", "E", "R", "M", "I", "N", "A" >>]

\* start_block that adds the level before it prints
start_block_adds_first(c, lg, message, color, bg_color) ==
    LET added == add_lvl(c)
    IN  Then(added, println(added.config, << START_LANGS[lg] \o << " " >>
                                              \o upper(to_string(message, << " " >>)) >>,
                            << NL >>, TRUE, color, bg_color, TRUE, <<>>, << " " >>))

\* start_block that knows one language
start_block_one_language(c, lg, message, color, bg_color) ==
    LET printed == println(c, << START_LANGS["en"] \o << " " >>
                                   \o upper(to_string(message, << " " >>)) >>,
                           << NL >>, TRUE, color, bg_color, TRUE, <<>>, << " " >>)
    IN  Then(printed, add_lvl(printed.config))

\* start_block
start_block(c, lg, message, color, bg_color) ==
    LET printed == println(c, << START_LANGS[lg] \o << " " >>
                                   \o upper(to_string(message, << " " >>)) >>,
                           << NL >>, TRUE, color, bg_color, TRUE, <<>>, << " " >>)
    IN  Then(printed, add_lvl(printed.config))

\* end_block that removes two levels
end_block_two_levels(c, lg, message, color, bg_color, style) ==
    LET text == upper(to_string(message, << " " >>))
        print_end(c2) == println(c2, << END_LANGS[lg] \o << " " >> \o text >>, << NL >>,
                                 TRUE, color, bg_color, TRUE, style, << " " >>)
        removed == Then(del_lvl(c), del_lvl(del_lvl(c).config))
        ended   == Then(removed, print_end(removed.config))
    IN  Then(ended, new_line(ended.config))

\* end_block
end_block(c, lg, message, color, bg_color, style) ==
    LET text == upper(to_string(message, << " " >>))
        print_end(c1) == println(c1, << END_LANGS[lg] \o << " " >> \o text >>, << NL >>,
                                 TRUE, color, bg_color, TRUE, style, << " " >>)
        removed == del_lvl(c)
        ended   == Then(removed, print_end(removed.config))
    IN  Then(ended, new_line(ended.config))

\* warning
warning(c, message, color, bg_color, style) ==
    LET text == to_string(message, << " " >>)
    IN  println(c, << << "w", "a", "r", "n", "i", "n", "g", ":", " " >> \o text >>,
                << NL >>, TRUE, color, bg_color, TRUE, style, << " " >>)

\* error
error(c, message, color, bg_color, style) ==
    LET text == to_string(message, << " " >>)
    IN  println(c, << << "e", "r", "r", "o", "r", ":", " ", ">", ">", ">", " " >>
                      \o text \o << " ", "<", "<", "<" >> >>,
                << NL >>, TRUE, color, bg_color, TRUE, style, << " " >>)

\* the line that line prints: style * size, cut by `if line[:-1] == ' '`
line_text(built) ==
    IF SliceTo(built, -1) = << " " >> THEN SliceTo(built, -1) ELSE built

\* line
line(c, size, style, color, bg_color, style_text) ==
    LET printed == println(c, << line_text(Repeat(style, size)) >>, << NL >>, TRUE, color,
                           bg_color, TRUE, style_text, << " " >>)
    IN  Then(printed, new_line(printed.config))

(***************************************************************************)
(* console.py: the block decorator.  A call of the wrapped function is     *)
(* three steps: what wrapped does before func runs, the body's own calls,  *)
(* and what wrapped does when func returns or raises.                      *)
(***************************************************************************)
\* message_block given as a str, or as a dict keyed by language
StrTitle(t) == [dict |-> FALSE, title |-> t, titles |-> [en |-> <<>>, es |-> <<>>]]

DictTitle(en, es) == [dict |-> TRUE, title |-> <<>>, titles |-> [en |-> en, es |-> es]]

\* message = message_block, or message_block[lang.lang()] for a dict
wrapped_message(lg, message_block) ==
    IF message_block.dict THEN message_block.titles[lg] ELSE message_block.title

\* wrapped, up to the call of func
wrapped_enter(c, lg, message, text_color, bg_color) ==
    LET started == start_block(c, lg, << message >>, text_color, bg_color)
    IN  Then(started, new_line(started.config))

\* what wrapped hands back: r, and the value it returns
Returned(r, value) ==
    [config |-> r.config, out |-> r.out, exc |-> r.exc, cleared |-> r.cleared,
     ret |-> IF r.exc = NoException THEN value ELSE None]

\* wrapped that closes the block with no blank line before the end line
wrapped_return_no_blank(c, lg, message, text_color, bg_color, value) ==
    Returned(end_block(c, lg, << message >>, text_color, bg_color, <<>>), value)

\* wrapped that never calls end_block
wrapped_return_no_end_block(c, lg, message, text_color, bg_color, value) ==
    Returned(new_line(c), value)

\* wrapped, from the return of func
wrapped_return(c, lg, message, text_color, bg_color, value) ==
    LET blank == new_line(c)
    IN  Returned(Then(blank, end_block(blank.config, lg, << message >>, text_color,
                                       bg_color, <<>>)),
                 value)

\* wrapped that closes the block in a finally clause
wrapped_raise_finally(c, lg, message, text_color, bg_color, e) ==
    LET blank == new_line(c)
        r     == Then(blank, end_block(blank.config, lg, << message >>, text_color,
                                       bg_color, <<>>))
    IN  [config |-> r.config, out |-> r.out, exc |-> e, cleared |-> r.cleared]

\* wrapped, when func raises e: nothing of wrapped runs after the call
wrapped_raise(c, lg, message, text_color, bg_color, e) ==
    Result(c, <<>>, e, 0)

(***************************************************************************)
(* console.py: textbox.                                                    *)
(***************************************************************************)
\* the glyphs of term's Line class, one element each
Line ==
    [SH |-> "SH", SV |-> "SV", STL |-> "STL", STR |-> "STR", SBL |-> "SBL", SBR |-> "SBR",
     DH |-> "DH", DV |-> "DV", DTL |-> "DTL", DTR |-> "DTR", DBL |-> "DBL", DBR |-> "DBR"]

\* ' ' * n
Spaces(n) ==
    Repeat(<< " " >>, n)

\* s.split('\n')
RECURSIVE split(_)
split(s) ==
    IF \A i \in DOMAIN s : s[i] # NL THEN << s >>
    ELSE LET i == CHOOSE j \in DOMAIN s : s[j] = NL /\ \A k \in 1..(j - 1) : s[k] # NL
         IN  << SubSeq(s, 1, i - 1) >> \o split(SubSeq(s, i + 1, Len(s)))

max_len_of_last(lines) ==
    Len(lines[Len(lines)])

\* max([len(line) for line in lines]), lines not empty
max_len_of(lines) ==
    CHOOSE m \in { Len(lines[i]) : i \in DOMAIN lines } :
        \A i \in DOMAIN lines : Len(lines[i]) <= m

\* a bare statement that ran without printing
Ok(c) ==
    Result(c, <<>>, NoException, 0)

\* the arguments of one println call
PrintlnCall(message, endl, withlvl, color, bg_color, reset_all_colors, style, sep) ==
    [message |-> message, endl |-> endl, withlvl |-> withlvl, color |-> color,
     bg_color |-> bg_color, reset_all_colors |-> reset_all_colors, style |-> style,
     sep |-> sep]

\* the println call new_line makes
NewLineCall ==
    PrintlnCall(<< <<>> >>, << NL >>, FALSE, <<>>, <<>>, TRUE, <<>>, << " " >>)

\* println calls made one after the other, after r: each one runs on the
\* configuration the one before it left, and the first that raises ends them
RECURSIVE printlns(_, _)
printlns(r, todo) ==
    IF todo = <<>> \/ r.exc # NoException THEN r
    ELSE printlns(Chain(r, println(r.config, Head(todo).message, Head(todo).endl,
                                   Head(todo).withlvl, Head(todo).color,
                                   Head(todo).bg_color, Head(todo).reset_all_colors,
                                   Head(todo).style, Head(todo).sep)),
                  Tail(todo))

\* the calls of a loop: those of its first pass, then those of its second, ...
Passes(calls_of) ==
    LET upto[i \in 0..Len(calls_of)] ==
            IF i = 0 THEN <<>> ELSE upto[i - 1] \o calls_of[i]
    IN  upto[Len(calls_of)]

\* textbox
textbox(c, message, withlvl, color, bg_color, reset_all_colors, style, sep, border, border_color, border_style) ==
    LET lines   == split(to_string(message, sep))
        max_len == max_len_of(lines)
        simple  == border = << "s", "i", "m", "p", "l", "e", "l", "i", "n", "e" >>
        double  == border = << "d", "o", "u", "b", "l", "e", "l", "i", "n", "e" >>
        top     == IF simple
                     THEN << Line.STL >> \o Repeat(<< Line.SH >>, max_len + 2) \o << Line.STR >>
                     ELSE << Line.DTL >> \o Repeat(<< Line.DH >>, max_len + 2) \o << Line.DTR >>
        bottom  == IF simple
                     THEN << Line.SBL >> \o Repeat(<< Line.SH >>, max_len + 2) \o << Line.SBR >>
                     ELSE << Line.DBL >> \o Repeat(<< Line.DH >>, max_len + 2) \o << Line.DBR >>
        vertical == IF simple THEN << Line.SV >> ELSE << Line.DV >>
        vertical_blank == vertical \o Spaces(max_len + 2) \o vertical
        edge(text) == PrintlnCall(<< text >>, << NL >>, withlvl, border_color, <<>>, TRUE,
                                  border_style, << " " >>)
        row(ln) ==
            << PrintlnCall(<< vertical >>, <<>>, withlvl, border_color, <<>>, TRUE,
                           border_style, << " " >>),
               PrintlnCall(<< << " " >> \o ln \o << " " >> >>, <<>>, FALSE, color, bg_color,
                           reset_all_colors, style, << " " >>),
               PrintlnCall(<< Spaces(max_len - Len(ln)) >>, <<>>, FALSE, <<>>, <<>>, TRUE,
                           <<>>, << " " >>),
               PrintlnCall(<< vertical >>, << NL >>, FALSE, border_color, <<>>, TRUE,
                           border_style, << " " >>) >>
    IN  IF ~simple /\ ~double
          THEN Result(c, <<>>,
                      Raise("ErrorNotDefinedStyle",
                            << "U", "n", "k", "n", "o", "w", "n", " ", "b", "o", "r", "d", "e",
                               "r", " ", "s", "t", "y", "l", "e", ":", " " >> \o border),
                      0)
          ELSE printlns(Ok(c),
                        << edge(top), edge(vertical_blank) >>
                          \o Passes([i \in DOMAIN lines |-> row(lines[i])])
                          \o << edge(vertical_blank), edge(bottom) >>)

(***************************************************************************)
(* console.py: print_matrix.  A matrix is a sequence of rows, a row a      *)
(* sequence of cells, a cell the text str() gives for it.  header and      *)
(* indexes are 'all', None or a list of labels.  The private helpers are   *)
(* the println calls they make, in the order they make them; the style     *)
(* functions run them.                                                     *)
(***************************************************************************)
All == [kind |-> "all", items |-> <<>>]

NoList == [kind |-> "none", items |-> <<>>]

List(items) == [kind |-> "list", items |-> items]

\* f'{s: ^{w}}'
Center(s, w) ==
    LET pad == w - Len(s)
    IN  IF pad <= 0 THEN s ELSE Spaces(pad \div 2) \o s \o Spaces(pad - (pad \div 2))

\* f'{s: >{w}}'
RightAlign(s, w) ==
    Spaces(w - Len(s)) \o s

Max(a, b) ==
    IF a >= b THEN a ELSE b

\* the texts __max_len_value takes for a missing value
Missing ==
    { << "N", "o", "n", "e" >>, << "n", "a", "n" >>, << "N", "a", "N" >> }

\* __max_len_value of a list of cells
max_len_value_of(cells, nan_format) ==
    LET len(cell) == IF cell \in Missing THEN Len(nan_format) ELSE Len(cell)
        upto[i \in 0..Len(cells)] ==
            IF i = 0 THEN 0 ELSE Max(upto[i - 1], len(cells[i]))
    IN  upto[Len(cells)]

\* __max_len_value of a matrix
max_len_value(matrix, nan_format) ==
    LET upto[i \in 0..Len(matrix)] ==
            IF i = 0 THEN 0
            ELSE Max(upto[i - 1], max_len_value_of(matrix[i], nan_format))
    IN  upto[Len(matrix)]

\* println(text, endl=endl, color=color, withlvl=False)
print_part(text, endl, color) ==
    PrintlnCall(<< text >>, endl, FALSE, color, <<>>, TRUE, <<>>, << " " >>)

\* __print_matrix_header, entered on configuration c
print_matrix_header(c, header, len_index, color_index, extra_spacing, withlvl, max_len_value_, lvl_space) ==
    LET spaces      == Spaces(len_index + lvl_space)
        indentation == IF withlvl THEN c.indentation_lvl ELSE <<>>
    IN  << print_part(indentation \o spaces \o extra_spacing, <<>>, <<>>) >>
          \o [i \in DOMAIN header |->
                print_part(<< " " >> \o Center(header[i], max_len_value_) \o << " " >>,
                           <<>>, color_index)]
          \o << NewLineCall >>

\* __print_matrix_row
print_matrix_row(row, max_len_value_, color, nan_format, color_style, color_index, end_line, start_line, index_name, indentation) ==
    LET cellstr(cell) == IF cell \notin (Missing \cup { <<>> }) THEN cell ELSE nan_format
    IN  << print_part(indentation, <<>>, <<>>),
           print_part(index_name, <<>>, color_index),
           print_part(start_line, <<>>, color_style) >>
          \o [i \in DOMAIN row |->
                print_part(<< " " >> \o Center(cellstr(row[i]), max_len_value_) \o << " " >>,
                           <<>>, color)]
          \o << print_part(end_line, << NL >>, color_style) >>

\* f'{indexes[index_row_id]: >{len_index}}' if indexes is not None else ''
index_name_of(indexes, i, len_index) ==
    IF indexes.kind # "none" THEN RightAlign(indexes.items[i], len_index) ELSE <<>>

\* __print_matrix_base, entered on configuration c
print_matrix_base(c, matrix, header, indexes, nan_format, color, color_index, color_style, max_len_value_, len_index, style, withlvl, start_line, end_line, top_line, bottom_line, level_space) ==
    LET indentation == IF withlvl THEN c.indentation_lvl ELSE <<>>
        head == IF header.kind = "list" /\ header.items # <<>>
                  THEN print_matrix_header(c, header.items, len_index, color_index, <<>>,
                                           withlvl, max_len_value_, level_space)
                  ELSE <<>>
        top == IF top_line # None /\ top_line # <<>>
                 THEN << print_part(top_line, << NL >>, color_style) >>
                 ELSE <<>>
        bottom == IF bottom_line # None /\ bottom_line # <<>>
                    THEN << print_part(bottom_line, << NL >>, color_style) >>
                    ELSE <<>>
        each(i) == print_matrix_row(matrix[i], max_len_value_, color, nan_format,
                                    color_style, color_index, end_line, start_line,
                                    index_name_of(indexes, i, len_index), indentation)
    IN  head \o top \o Passes([i \in DOMAIN matrix |-> each(i)]) \o bottom

\* the style names print_matrix knows
BOX == << "b", "o", "x" >>
SEMIBOX == << "s", "e", "m", "i", "b", "o", "x" >>
NUMPY == << "n", "u", "m", "p", "y" >>
NP == << "n", "p" >>
SIMPLELINE == << "s", "i", "m", "p", "l", "e", "l", "i", "n", "e" >>
SL == << "s", "l" >>
LINE == << "l", "i", "n", "e" >>
DOUBLELINE == << "d", "o", "u", "b", "l", "e", "l", "i", "n", "e" >>
DL == << "d", "l" >>

\* __print_matrix_box_style: for 'semibox' the bottom_line argument is the call
\* new_line(), made while the arguments are evaluated, before __print_matrix_base
\* is entered
print_matrix_box_style(c, matrix, header, indexes, nan_format, color, color_index, color_style, max_len_value_, len_index, style, withlvl) ==
    LET div == Repeat(<< "-" >>, Len(matrix[1]) * max_len_value_)
                 \o Repeat(<< "-" >>, Len(matrix[1]) * 2)
        spaces      == Spaces(len_index + 3)
        indentation == IF withlvl THEN c.indentation_lvl ELSE <<>>
        base(c1, end_line, bottom_line) ==
            print_matrix_base(c1, matrix, header, indexes, nan_format, color, color_index,
                              color_style, max_len_value_, len_index, style, withlvl,
                              << " ", "|", " " >>, end_line, indentation \o spaces \o div,
                              bottom_line, 3)
        argument == new_line(c)
    IN  IF style = BOX
          THEN printlns(Ok(c), base(c, << " ", "|", " " >>, indentation \o spaces \o div))
          ELSE printlns(argument, base(argument.config, <<>>, None))

\* __print_matrix_numpy_style
print_matrix_numpy_style(c, matrix, header, indexes, style, nan_format, color, color_index, color_style, max_len_value_, len_index, withlvl) ==
    LET indentation == IF withlvl THEN c.indentation_lvl ELSE <<>>
        max_rows    == Len(matrix)
        head == IF header.kind # "none"
                  THEN print_matrix_header(c, header.items, len_index, color_index,
                                           << " ", " ", " " >>, withlvl, max_len_value_, 3)
                  ELSE <<>>
        each(i) ==
            << IF i = 1
                 THEN PrintlnCall(<< indentation, << "[", " " >> >>, <<>>, FALSE, color_style,
                                  <<>>, TRUE, <<>>, << " " >>)
                 ELSE PrintlnCall(<< << " ", " " >>, indentation >>, <<>>, FALSE, <<>>, <<>>,
                                  TRUE, <<>>, << " " >>) >>
              \o print_matrix_row(matrix[i], max_len_value_, color, nan_format, color_style,
                                  color_index,
                                  IF max_rows # i THEN << " ", "]" >>
                                  ELSE << " ", "]", " ", " ", "]" >>,
                                  << " ", "[", " " >>,
                                  index_name_of(indexes, i, len_index), indentation)
    IN  printlns(Ok(c), head \o Passes([i \in DOMAIN matrix |-> each(i)]))

\* __print_matrix_without_style
print_matrix_without_style(c, matrix, header, indexes, style, nan_format, color, color_index, color_style, max_len_value_, len_index, withlvl) ==
    printlns(Ok(c),
             print_matrix_base(c, matrix, header, indexes, nan_format, color, color_index,
                               color_style, max_len_value_, len_index, style, withlvl,
                               <<>>, <<>>, <<>>, <<>>, 0))

\* __print_matrix_simpleline_style
print_matrix_simpleline_style(c, matrix, header, indexes, nan_format, color, color_index, color_style, max_len_value_, len_index, style, withlvl) ==
    LET div == Repeat(<< Line.SH >>,
                      Len(matrix[1]) * max_len_value_ + Len(matrix[1]) * 2 + 2)
        spaces      == Spaces(len_index + 1)
        indentation == IF withlvl THEN c.indentation_lvl ELSE <<>>
    IN  printlns(Ok(c),
                 print_matrix_base(c, matrix, header, indexes, nan_format, color,
                                   color_index, color_style, max_len_value_, len_index,
                                   style, withlvl,
                                   << " ", Line.SV, " " >>, << " ", Line.SV, " " >>,
                                   indentation \o spaces \o << Line.STL >> \o div
                                     \o << Line.STR >>,
                                   indentation \o spaces \o << Line.SBL >> \o div
                                     \o << Line.SBR >>,
                                   3))

\* __print_matrix_doubleline_style
print_matrix_doubleline_style(c, matrix, header, indexes, nan_format, color, color_index, color_style, max_len_value_, len_index, style, withlvl) ==
    LET div == Repeat(<< Line.DH >>,
                      Len(matrix[1]) * max_len_value_ + Len(matrix[1]) * 2 + 2)
        spaces      == Spaces(len_index + 1)
        indentation == IF withlvl THEN c.indentation_lvl ELSE <<>>
    IN  printlns(Ok(c),
                 print_matrix_base(c, matrix, header, indexes, nan_format, color,
                                   color_index, color_style, max_len_value_, len_index,
                                   style, withlvl,
                                   << " ", Line.DV, " " >>, << " ", Line.DV, " " >>,
                                   indentation \o spaces \o << Line.DTL >> \o div
                                     \o << Line.DTR >>,
                                   indentation \o spaces \o << Line.DBL >> \o div
                                     \o << Line.DBR >>,
                                   3))

\* [str(i) for i in range(n)]
range_labels(n) ==
    List([i \in 1..n |-> str(i - 1)])

\* print_matrix
print_matrix(c, matrix, header, indexes, style, nan_format, color, color_index, color_style, withlvl) ==
    LET indexes1 == IF indexes = All THEN range_labels(Len(matrix)) ELSE indexes
        header1  == IF header = All THEN range_labels(Len(matrix[1])) ELSE header
        mlv      == Max(max_len_value(matrix, nan_format),
                        max_len_value_of(header1.items, nan_format))
        len_index == IF indexes1.kind = "list"
                       THEN max_len_value_of(indexes1.items, nan_format) ELSE 0
    IN  IF style = None
          THEN print_matrix_without_style(c, matrix, header1, indexes1, style, nan_format,
                                          color, color_index, color_style, mlv, len_index,
                                          withlvl)
        ELSE IF style \in { BOX, SEMIBOX }
          THEN print_matrix_box_style(c, matrix, header1, indexes1, nan_format, color,
                                      color_index, color_style, mlv, len_index, style,
                                      withlvl)
        ELSE IF style \in { NUMPY, NP }
          THEN print_matrix_numpy_style(c, matrix, header1, indexes1, style, nan_format,
                                        color, color_index, color_style, mlv, len_index,
                                        withlvl)
        ELSE IF style \in { SIMPLELINE, SL, LINE }
          THEN print_matrix_simpleline_style(c, matrix, header1, indexes1, nan_format,
                                             color, color_index, color_style, mlv,
                                             len_index, style, withlvl)
        ELSE IF style \in { DOUBLELINE, DL }
          THEN print_matrix_doubleline_style(c, matrix, header1, indexes1, nan_format,
                                             color, color_index, color_style, mlv,
                                             len_index, style, withlvl)
        ELSE Result(c, <<>>,
                    Raise("ErrorNotDefinedStyle",
                          << "U", "n", "k", "n", "o", "w", "n", " ", "s", "t", "y", "l", "e",
                             ":", " " >> \o style),
                    0)

(***************************************************************************)
(* console.py: progress_bar.  progress is a binary fraction num / den (den *)
(* a power of two), a float for which the products progress * width and    *)
(* progress * 100 are exact; kwargs are the keyword arguments handed on to *)
(* println.                                                                *)
(***************************************************************************)
Fraction(num, den) == [num |-> num, den |-> den]

\* println's keyword arguments
Kwargs(endl, withlvl, color, bg_color, reset_all_colors, style, sep) ==
    [endl |-> endl, withlvl |-> withlvl, color |-> color, bg_color |-> bg_color,
     reset_all_colors |-> reset_all_colors, style |-> style, sep |-> sep]

\* int(progress * n) for progress >= 0
int_times(progress, n) ==
    (progress.num * n) \div progress.den

\* the line progress_bar prints, and the println call that prints it
progress_bar_println(c, progress_bar_, pct_value, width, bar, start_bar, end_bar, spacing, pct, kwargs) ==
    LET pct_bar == IF pct THEN << " ", "(" >> \o str(pct_value) \o << "%", ")" >> ELSE <<>>
    IN  println(c, << start_bar \o Repeat(bar, progress_bar_)
                        \o Repeat(spacing, width - progress_bar_) \o end_bar \o pct_bar >>,
                kwargs.endl, kwargs.withlvl, kwargs.color, kwargs.bg_color,
                kwargs.reset_all_colors, kwargs.style, kwargs.sep)

\* the checks progress_bar makes before it prints: the exception of the first one
\* that fails
progress_bar_checks(progress, width, bar, start_bar, end_bar) ==
    IF progress.num < 0 \/ progress.num > progress.den
      THEN Raise("ValueError", << "T", "h", "e", " ", "p", "r", "o", "g", "r", "e",
                                  "s", "s", " ", "m", "u", "s", "t", " ", "b", "e",
                                  " ", "b", "e", "t", "w", "e", "e", "n", " ", "0",
                                  " ", "a", "n", "d", " ", "1" >>)
    ELSE IF width < 0
      THEN Raise("ValueError", << "T", "h", "e", " ", "w", "i", "d", "t", "h", " ",
                                  "m", "u", "s", "t", " ", "b", "e", " ", "g", "r",
                                  "e", "a", "t", "e", "r", " ", "t", "h", "a", "n",
                                  " ", "0" >>)
    ELSE IF Len(bar) # 1
      THEN Raise("ValueError", << "T", "h", "e", " ", "b", "a", "r", " ", "m", "u",
                                  "s", "t", " ", "b", "e", " ", "a", " ", "s", "i",
                                  "n", "g", "l", "e", " ", "c", "h", "a", "r", "a",
                                  "c", "t", "e", "r" >>)
    ELSE IF Len(start_bar) # 1
      THEN Raise("ValueError", << "T", "h", "e", " ", "s", "t", "a", "r", "t", "_",
                                  "b", "a", "r", " ", "m", "u", "s", "t", " ", "b",
                                  "e", " ", "a", " ", "s", "i", "n", "g", "l", "e",
                                  " ", "c", "h", "a", "r", "a", "c", "t", "e", "r" >>)
    ELSE IF Len(end_bar) # 1
      THEN Raise("ValueError", << "T", "h", "e", " ", "e", "n", "d", "_", "b", "a",
                                  "r", " ", "m", "u", "s", "t", " ", "b", "e", " ",
                                  "a", " ", "s", "i", "n", "g", "l", "e", " ", "c",
                                  "h", "a", "r", "a", "c", "t", "e", "r" >>)
    ELSE NoException

\* progress_bar that starts the console before it checks its arguments
progress_bar_starts_first(c, progress, width, bar, start_bar, end_bar, spacing, pct, kwargs) ==
    IF progress_bar_checks(progress, width, bar, start_bar, end_bar) # NoException
      THEN Result(ConsoleConfig_lazy_init(c), <<>>,
                  progress_bar_checks(progress, width, bar, start_bar, end_bar), 0)
      ELSE progress_bar_println(c, int_times(progress, width), int_times(progress, 100),
                                width, bar, start_bar, end_bar, spacing, pct, kwargs)

\* progress_bar that rounds the filled cells and the percentage to the nearest integer
progress_bar_rounds(c, progress, width, bar, start_bar, end_bar, spacing, pct, kwargs) ==
    IF progress_bar_checks(progress, width, bar, start_bar, end_bar) # NoException
      THEN Result(c, <<>>, progress_bar_checks(progress, width, bar, start_bar, end_bar), 0)
      ELSE progress_bar_println(c, (2 * progress.num * width + progress.den)
                                     \div (2 * progress.den),
                                (2 * progress.num * 100 + progress.den)
                                     \div (2 * progress.den),
                                width, bar, start_bar, end_bar, spacing, pct, kwargs)

\* progress_bar
progress_bar(c, progress, width, bar, start_bar, end_bar, spacing, pct, kwargs) ==
    IF progress_bar_checks(progress, width, bar, start_bar, end_bar) # NoException
      THEN Result(c, <<>>, progress_bar_checks(progress, width, bar, start_bar, end_bar), 0)
      ELSE progress_bar_println(c, int_times(progress, width), int_times(progress, 100),
                                width, bar, start_bar, end_bar, spacing, pct, kwargs)

(***************************************************************************)
(* __init__.py: the functions the package itself exports, with their own   *)
(* configuration class.  A function is applied to the two configuration    *)
(* classes of the process and answers both, with what it printed.          *)
(***************************************************************************)
\* the class attributes as the class statement sets them
FacadeConfig ==
    [ indentation_type   |-> << " " >>,
      indentation_lvl    |-> <<>>,
      indentantion_size  |-> 2,
      is_start_console   |-> FALSE,
      autoreset_colors   |-> TRUE ]

\* get_color, get_background and get_style of consoleverse.term, each on its
\* table: an empty name adds nothing
get_color(table, name) ==
    IF name = <<>> THEN <<>> ELSE table[upper(name)]

\* functions of __init__.py that add their level to both configuration classes
Facade_shared(e, f, lg, k) ==
    LET lvl == f.indentation_lvl \o Repeat(f.indentation_type, f.indentantion_size)
    IN  [engine |-> [e EXCEPT !.indentation_lvl = lvl],
         facade |-> [f EXCEPT !.indentation_lvl = lvl],
         out |-> <<>>, cleared |-> 0]

\* the call k of a function of __init__.py, made when the configuration classes
\* are e (console.py) and f (__init__.py)
Facade(e, f, lg, k) ==
    LET \* start_console
        start_console(c, clear, indentation_type, indentation_size, autoreset_colors) ==
            [c EXCEPT !.indentation_lvl = <<>>,
                      !.indentantion_size = indentation_size,
                      !.indentation_type = indentation_type,
                      !.autoreset_colors = autoreset_colors,
                      !.is_start_console = TRUE]
        \* __start_console
        started(c) ==
            IF ~c.is_start_console THEN start_console(c, FALSE, << " " >>, 2, TRUE) ELSE c
        \* add_lvl
        added(c) ==
            [c EXCEPT !.indentation_lvl =
                          @ \o Repeat(c.indentation_type, c.indentantion_size)]
        \* del_lvl
        removed(c) ==
            [c EXCEPT !.indentation_lvl = SliceTo(@, 0 - c.indentantion_size)]
        \* println with _colorize: [config, out]
        printed(c, message, endl, withlvl, color, bg_color, reset_all_colors, style, sep) ==
            LET c1   == started(c)
                text == to_string(message, sep)
                msg  == IF withlvl THEN c1.indentation_lvl \o text ELSE text
                reset_console_colors ==
                    IF reset_all_colors \/ c1.autoreset_colors THEN reset ELSE <<>>
            IN  [config |-> c1,
                 out |-> get_color(COLORS, color) \o get_color(BACKGROUNDS, bg_color)
                           \o get_color(STYLES, style) \o msg
                           \o (IF reset_console_colors # <<>> THEN reset ELSE <<>>)
                           \o endl]
        plain(c, text, withlvl, color, bg_color, style) ==
            printed(c, << text >>, << NL >>, withlvl, color, bg_color, TRUE, style, << " " >>)
        \* new_line
        blank(c) ==
            plain(c, <<>>, FALSE, <<>>, <<>>, <<>>)
        after(p, q) ==
            [config |-> q.config, out |-> p.out \o q.out]
        a == k.a
        r == CASE k.name = "init" ->
                    [config |-> start_console(f, a.clear, a.indentation_type,
                                              a.indentation_size, a.autoreset_colors),
                     out |-> <<>>]
               [] k.name = "add_lvl" -> [config |-> added(f), out |-> <<>>]
               [] k.name = "del_lvl" -> [config |-> removed(f), out |-> <<>>]
               [] k.name = "println" ->
                    printed(f, a.message, a.endl, a.withlvl, a.color, a.bg_color,
                            a.reset_all_colors, a.style, a.sep)
               [] k.name = "new_line" -> blank(f)
               [] k.name = "start_block" ->
                    LET p == plain(f, START_LANGS[lg] \o << " " >>
                                        \o upper(to_string(a.message, << " " >>)),
                                   TRUE, a.color, a.bg_color, <<>>)
                    IN  [config |-> added(p.config), out |-> p.out]
               [] k.name = "end_block" ->
                    LET p == plain(removed(f), END_LANGS[lg] \o << " " >>
                                                 \o upper(to_string(a.message, << " " >>)),
                                   TRUE, a.color, a.bg_color, a.style)
                    IN  after(p, blank(p.config))
               [] k.name = "warning" ->
                    plain(f, << "w", "a", "r", "n", "i", "n", "g", ":", " " >>
                               \o to_string(a.message, << " " >>),
                          TRUE, a.color, a.bg_color, a.style)
               [] k.name = "error" ->
                    plain(f, << "e", "r", "r", "o", "r", ":", " ", ">", ">", ">", " " >>
                               \o to_string(a.message, << " " >>)
                               \o << " ", "<", "<", "<" >>,
                          TRUE, a.color, a.bg_color, a.style)
               [] k.name = "line" ->
                    LET p == plain(f, line_text(Repeat(a.style, a.size)), TRUE, a.color,
                                   a.bg_color, a.style_text)
                    IN  after(p, blank(p.config))
    IN  [engine |-> e, facade |-> r.config, out |-> r.out,
         cleared |-> IF k.name = "init" /\ a.clear THEN 1 ELSE 0]

(***************************************************************************)
(* The calls a program makes, and the state machine.                       *)
(***************************************************************************)
Call(name, a) == [name |-> name, a |-> a]

NoArgs == [none |-> TRUE]

\* the effect of the call k made with configuration c and language lg
Run(c, lg, k) ==
    CASE k.name = "init" ->
           init(c, k.a.clear, k.a.indentation_type, k.a.indentation_size,
                k.a.autoreset_colors)
      [] k.name = "reset_config" -> reset_config(c)
      [] k.name = "add_lvl" -> add_lvl(c)
      [] k.name = "del_lvl" -> del_lvl(c)
      [] k.name = "println" ->
           println(c, k.a.message, k.a.endl, k.a.withlvl, k.a.color, k.a.bg_color,
                   k.a.reset_all_colors, k.a.style, k.a.sep)
      [] k.name = "new_line" -> new_line(c)
      [] k.name = "start_block" ->
           start_block(c, lg, k.a.message, k.a.color, k.a.bg_color)
      [] k.name = "end_block" ->
           end_block(c, lg, k.a.message, k.a.color, k.a.bg_color, k.a.style)
      [] k.name = "warning" -> warning(c, k.a.message, k.a.color, k.a.bg_color, k.a.style)
      [] k.name = "error" -> error(c, k.a.message, k.a.color, k.a.bg_color, k.a.style)
      [] k.name = "line" ->
           line(c, k.a.size, k.a.style, k.a.color, k.a.bg_color, k.a.style_text)
      [] k.name = "textbox" ->
           textbox(c, k.a.message, k.a.withlvl, k.a.color, k.a.bg_color,
                   k.a.reset_all_colors, k.a.style, k.a.sep, k.a.border, k.a.border_color,
                   k.a.border_style)
      [] k.name = "progress_bar" ->
           progress_bar(c, k.a.progress, k.a.width, k.a.bar, k.a.start_bar, k.a.end_bar,
                        k.a.spacing, k.a.pct, k.a.kwargs)
      [] k.name = "print_matrix" ->
           print_matrix(c, k.a.matrix, k.a.header, k.a.indexes, k.a.style, k.a.nan_format,
                        k.a.color, k.a.color_index, k.a.color_style, k.a.withlvl)

\* the arguments the model passes
Units == { << " " >>, << "." >>, << "a", "b" >> }
Sizes == 0..MaxSize
Languages == { "en", "es" }
Text == << "h", "i" >>
Title == << "t", "i" >>
BLUE == << "B", "L", "U", "E" >>
RED == << "R", "E", "D" >>

\* no init since the last reset, or the indentation is not being counted
NoGhost == [valid |-> FALSE, u |-> <<>>, n |-> 0, depth |-> 0]

GhostInit(u, n) ==
    IF Len(u) = 1 /\ n >= 1 THEN [valid |-> TRUE, u |-> u, n |-> n, depth |-> 0]
    ELSE NoGhost

GhostAdd(g) ==
    IF g.valid THEN [g EXCEPT !.depth = @ + 1] ELSE g

GhostDel(g) ==
    IF g.valid /\ g.depth > 0 THEN [g EXCEPT !.depth = @ - 1] ELSE NoGhost

NoMatch == [valid |-> FALSE, before |-> <<>>, was_init |-> FALSE]

\* room for one more level within the model's bound
CanAdd ==
    Len(config.indentation_lvl)
      + Len(Repeat(config.indentation_type, config.indentantion_size)) <= MaxIndent

NoClosed ==
    [valid |-> FALSE, message_block |-> [dict |-> FALSE], before |-> <<>>,
     was_init |-> FALSE, neutral |-> FALSE]

NoUnbalanced == NoClosed

\* the operations that only print
PrintOnly ==
    { "println", "new_line", "warning", "error", "line", "textbox", "print_matrix",
      "progress_bar" }

\* the call k is made on the current configuration
Made(k) ==
    \E r \in { Run(config, language, k) } :
        /\ call' = k
        /\ config' = r.config
        /\ pre' = config
        /\ out' = r.out
        /\ exc' = r.exc
        /\ cleared' = r.cleared
        /\ ret' = None
        /\ closed' = NoClosed
        /\ unbalanced' = IF k.name \in PrintOnly THEN unbalanced ELSE NoUnbalanced

\* the bookkeeping a call leaves
Book(g, o, m) ==
    /\ ghost' = g
    /\ opened' = o
    /\ matched' = m

Init ==
    /\ config = ConsoleConfig
    /\ facade = FacadeConfig
    /\ facade_out = <<>>
    /\ language = "en"
    /\ calls = <<>>
    /\ opened = <<>>
    /\ ghost = NoGhost
    /\ call = Call("none", NoArgs)
    /\ pre = ConsoleConfig
    /\ out = <<>>
    /\ exc = NoException
    /\ cleared = 0
    /\ ret = None
    /\ matched = NoMatch
    /\ closed = NoClosed
    /\ unbalanced = NoUnbalanced

InitOp ==
    \E clear \in BOOLEAN, u \in Units, n \in Sizes, ar \in BOOLEAN :
        /\ Made(Call("init", [clear |-> clear, indentation_type |-> u,
                              indentation_size |-> n, autoreset_colors |-> ar]))
        /\ Book(GhostInit(u, n), <<>>, NoMatch)
        /\ UNCHANGED << facade, facade_out, language, calls >>

ResetConfig ==
    /\ Made(Call("reset_config", NoArgs))
    /\ Book(NoGhost, <<>>, NoMatch)
    /\ UNCHANGED << facade, facade_out, language, calls >>

AddLvl ==
    /\ CanAdd
    /\ Made(Call("add_lvl", NoArgs))
    /\ Book(GhostAdd(ghost), <<>>, NoMatch)
    /\ UNCHANGED << facade, facade_out, language, calls >>

DelLvl ==
    /\ Made(Call("del_lvl", NoArgs))
    /\ Book(GhostDel(ghost), <<>>, NoMatch)
    /\ UNCHANGED << facade, facade_out, language, calls >>

Println ==
    \E withlvl \in BOOLEAN :
        /\ Made(Call("println", PrintlnCall(<< Text >>, << NL >>, withlvl, <<>>, <<>>,
                                            TRUE, <<>>, << " " >>)))
        /\ Book(ghost, opened, NoMatch)
        /\ UNCHANGED << facade, facade_out, language, calls >>

NewLine ==
    /\ Made(Call("new_line", NoArgs))
    /\ Book(ghost, opened, NoMatch)
    /\ UNCHANGED << facade, facade_out, language, calls >>

StartBlock ==
    /\ CanAdd
    /\ Len(opened) < MaxOpen
    /\ Made(Call("start_block",
                 [message |-> << Title >>, color |-> BLUE, bg_color |-> <<>>]))
    /\ Book(GhostAdd(ghost),
            Append(opened,
                   [before |-> config.indentation_lvl, was_init |-> config.is_init]),
            NoMatch)
    /\ UNCHANGED << facade, facade_out, language, calls >>

EndBlock ==
    /\ Made(Call("end_block", [message |-> << Title >>, color |-> BLUE,
                               bg_color |-> <<>>, style |-> <<>>]))
    /\ Book(GhostDel(ghost),
            IF opened = <<>> THEN <<>> ELSE SubSeq(opened, 1, Len(opened) - 1),
            IF opened = <<>> THEN NoMatch
            ELSE [valid |-> TRUE, before |-> opened[Len(opened)].before,
                  was_init |-> opened[Len(opened)].was_init])
    /\ UNCHANGED << facade, facade_out, language, calls >>

Warning ==
    /\ Made(Call("warning", [message |-> << Text >>, color |-> BLUE, bg_color |-> <<>>,
                             style |-> <<>>]))
    /\ Book(ghost, opened, NoMatch)
    /\ UNCHANGED << facade, facade_out, language, calls >>

Error ==
    /\ Made(Call("error", [message |-> << Text >>, color |-> RED, bg_color |-> <<>>,
                           style |-> <<>>]))
    /\ Book(ghost, opened, NoMatch)
    /\ UNCHANGED << facade, facade_out, language, calls >>

LineOp ==
    \E size \in 1..MaxLine, style \in { << "-", " " >>, << " " >> } :
        /\ Made(Call("line", [size |-> size, style |-> style, color |-> <<>>,
                              bg_color |-> <<>>, style_text |-> <<>>]))
        /\ Book(ghost, opened, NoMatch)
        /\ UNCHANGED << facade, facade_out, language, calls >>

\* lang.lang() is made to answer l
SetLanguage ==
    \E l \in Languages :
        /\ l # language
        /\ language' = l
        /\ call' = Call("set_language", [lang |-> l])
        /\ pre' = config
        /\ out' = <<>>
        /\ exc' = NoException
        /\ cleared' = 0
        /\ ret' = None
        /\ matched' = NoMatch
        /\ closed' = NoClosed
        /\ UNCHANGED << config, facade, facade_out, calls, opened, ghost, unbalanced >>

Next ==
    \/ InitOp
    \/ ResetConfig
    \/ AddLvl
    \/ DelLvl
    \/ Println
    \/ NewLine
    \/ StartBlock
    \/ EndBlock
    \/ Warning
    \/ Error
    \/ LineOp
    \/ SetLanguage

Spec == Init /\ [][Next]_vars

(***************************************************************************)
(* Properties of Spec.                                                     *)
(***************************************************************************)
PrintFamily ==
    { "println", "new_line", "start_block", "end_block", "warning", "error", "line" }

\* C1, as the claim states it: whenever an end_block closes the start_block it is
\* properly nested with, the current indentation is the one that start_block was
\* called with, from any configuration state whose indentation unit is a single
\* character.
C1_AnyConfiguration ==
    (call.name = "end_block" /\ matched.valid /\ Len(config.indentation_type) = 1)
        => config.indentation_lvl = matched.before

\* C1 (amended): when an end_block closes the start_block it is properly nested
\* with, and that start_block was called on an Initialized configuration (or with
\* an empty indentation) whose indentation unit is a single character, the current
\* indentation is the one that start_block was called with.
C1_IndentationSymmetry ==
    ( /\ call.name = "end_block"
      /\ matched.valid
      /\ matched.was_init \/ matched.before = <<>>
      /\ Len(config.indentation_type) = 1 )
        => config.indentation_lvl = matched.before

\* an inner pair of two nested pairs has just been closed at a non-empty indentation
C1_Witness ==
    /\ call.name = "end_block"
    /\ matched.valid
    /\ matched.was_init
    /\ Len(config.indentation_type) = 1
    /\ matched.before # <<>>
    /\ opened # <<>>
    /\ config.indentation_lvl = matched.before

\* C2: after init(u, n) with a single character u and n >= 1, while no prefix of
\* the add/del (start_block/end_block) calls has more removals than additions, the
\* indentation is u repeated depth * n times, and a removal strips exactly n
\* characters from the end.
C2_IndentationArithmetic ==
    ghost.valid =>
        /\ config.indentation_lvl = [i \in 1..(ghost.depth * ghost.n) |-> ghost.u[1]]
        /\ call.name \in { "del_lvl", "end_block" } =>
             /\ Len(pre.indentation_lvl) = Len(config.indentation_lvl) + ghost.n
             /\ SubSeq(pre.indentation_lvl, 1, Len(config.indentation_lvl))
                  = config.indentation_lvl

\* two levels of two dots, and a removal from there
C2_Witness ==
    /\ ghost.valid
    /\ ghost.u = << "." >>
    /\ ghost.n = 2
    /\ ghost.depth = 1
    /\ call.name = "del_lvl"
    /\ pre.indentation_lvl = << ".", ".", ".", "." >>

\* C3: a print made on an Uninitialized configuration does not clear the screen,
\* leaves the configuration Initialized, and prints and leaves exactly what the same
\* call prints and leaves when init(clear=False) is called first.
C3_LazyInitialization ==
    (call.name \in PrintFamily /\ ~pre.is_init) =>
        LET first == init(pre, FALSE, << " " >>, 2, TRUE)
            r     == Run(first.config, language, call)
        IN  /\ cleared = 0
            /\ first.cleared = 0
            /\ config.is_init
            /\ config = r.config
            /\ out = r.out
            /\ exc = r.exc

\* the first print is a start_block made after add_lvl built some indentation
C3_Witness ==
    /\ call.name = "start_block"
    /\ ~pre.is_init
    /\ pre.indentation_lvl # <<>>
    /\ config.indentation_lvl = << " ", " " >>

(***************************************************************************)
(* SpecBlock: calls of functions wrapped by @block.  The body of a wrapped *)
(* function is the API calls made while its frame is the innermost one.    *)
(***************************************************************************)
\* the titles, the values func returns and the exceptions it raises
Titles == { StrTitle(Title), DictTitle(<< "e", "n" >>, << "e", "s" >>) }
Values == { << "x" >>, None }
Raised == { Raise("ValueError", << "x" >>) }
BodyUnits == { << "." >> }
BodySizes == { 1 }

InitBlock ==
    /\ config = ConsoleConfig
    /\ facade = FacadeConfig
    /\ facade_out = <<>>
    /\ language \in Languages
    /\ calls = <<>>
    /\ opened = <<>>
    /\ ghost = NoGhost
    /\ call = Call("none", NoArgs)
    /\ pre = ConsoleConfig
    /\ out = <<>>
    /\ exc = NoException
    /\ cleared = 0
    /\ ret = None
    /\ matched = NoMatch
    /\ closed = NoClosed
    /\ unbalanced = NoUnbalanced

\* the innermost running wrapped call
Top == calls[Len(calls)]

\* what is known of the frame f when its call ends in configuration c
Closing(f, c) ==
    [valid |-> TRUE, message_block |-> f.message_block, before |-> f.before,
     was_init |-> f.was_init, neutral |-> (c = f.entry)]

\* a wrapped function is called: wrapped runs up to the call of func
BlockEnter ==
    \E message_block \in Titles :
        /\ CanAdd
        /\ Len(calls) < MaxCalls
        /\ \E message \in { wrapped_message(language, message_block) } :
           \E r \in { wrapped_enter(config, language, message, BLUE, <<>>) } :
            /\ call' = Call("block_enter", [message_block |-> message_block])
            /\ config' = r.config
            /\ pre' = config
            /\ out' = r.out
            /\ exc' = r.exc
            /\ cleared' = r.cleared
            /\ ret' = None
            /\ calls' = Append(calls,
                               [message_block |-> message_block, message |-> message,
                                text_color |-> BLUE, bg_color |-> <<>>,
                                before |-> config.indentation_lvl,
                                was_init |-> config.is_init, entry |-> r.config])
            /\ closed' = NoClosed
            /\ unbalanced' = NoUnbalanced
            /\ UNCHANGED << facade, facade_out, language, opened, ghost, matched >>

\* func returns value: wrapped runs to its end and returns it
BlockReturn ==
    \E value \in Values :
        /\ calls # <<>>
        /\ \E r \in { wrapped_return(config, language, Top.message, Top.text_color,
                                     Top.bg_color, value) } :
            /\ call' = Call("block_return", [value |-> value])
            /\ config' = r.config
            /\ pre' = config
            /\ out' = r.out
            /\ exc' = r.exc
            /\ cleared' = r.cleared
            /\ ret' = r.ret
            /\ calls' = SubSeq(calls, 1, Len(calls) - 1)
            /\ closed' = Closing(Top, config)
            /\ unbalanced' = NoUnbalanced
            /\ UNCHANGED << facade, facade_out, language, opened, ghost, matched >>

\* func raises e: the exception leaves wrapped
BlockRaise ==
    \E e \in Raised :
        /\ calls # <<>>
        /\ \E r \in { wrapped_raise(config, language, Top.message, Top.text_color,
                                    Top.bg_color, e) } :
            /\ call' = Call("block_raise", [e |-> e])
            /\ config' = r.config
            /\ pre' = config
            /\ out' = r.out
            /\ exc' = r.exc
            /\ cleared' = r.cleared
            /\ ret' = None
            /\ calls' = SubSeq(calls, 1, Len(calls) - 1)
            /\ closed' = Closing(Top, config)
            /\ unbalanced' = Closing(Top, config)
            /\ UNCHANGED << facade, facade_out, language, opened, ghost, matched >>

\* init, with the arguments a body passes
BodyInit ==
    \E u \in BodyUnits, n \in BodySizes :
        /\ Made(Call("init", [clear |-> FALSE, indentation_type |-> u,
                              indentation_size |-> n, autoreset_colors |-> TRUE]))
        /\ Book(GhostInit(u, n), <<>>, NoMatch)
        /\ UNCHANGED << facade, facade_out, language, calls >>

NextBlock ==
    \/ BlockEnter
    \/ BlockReturn
    \/ BlockRaise
    \/ BodyInit
    \/ ResetConfig
    \/ AddLvl
    \/ DelLvl
    \/ NewLine

SpecBlock == InitBlock /\ [][NextBlock]_vars

(***************************************************************************)
(* SpecRender: the output operations called with colour, background,      *)
(* style, border and matrix-style names of every kind: known ones in any   *)
(* letter case, unknown ones, the empty string and None.                   *)
(***************************************************************************)
ULTRA == << "U", "L", "T", "R", "A" >>
BG_BLUE == << "B", "G", "_", "B", "L", "U", "E" >>
BOLD == << "B", "O", "L", "D" >>
ITALIC == << "I", "T", "A", "L", "I", "C" >>
WAVY == << "w", "a", "v", "y" >>
TRIANGLE == << "t", "r", "i", "a", "n", "g", "l", "e" >>

\* (color, bg_color, style) as a caller passes them
NameTriples ==
    { << <<>>, <<>>, <<>> >>,
      << RED, <<>>, <<>> >>,
      << << "r", "e", "d" >>, BG_BLUE, BOLD >>,
      << ULTRA, <<>>, <<>> >>,
      << <<>>, RED, <<>> >>,
      << <<>>, <<>>, ITALIC >> }

Borders == { SIMPLELINE, DOUBLELINE, WAVY, <<>> }

\* message, withlvl and reset_all_colors arguments of textbox: a message of one
\* line, and one of two lines of different lengths
TextboxInputs ==
    { [message |-> << << "h", "i" >> >>, withlvl |-> TRUE, reset_all_colors |-> TRUE],
      [message |-> << << "a", "b", NL, "c" >> >>, withlvl |-> TRUE,
       reset_all_colors |-> FALSE],
      [message |-> << << "a", "b", NL, "c" >> >>, withlvl |-> FALSE,
       reset_all_colors |-> TRUE] }

MatrixStyles ==
    { None, BOX, SEMIBOX, NUMPY, NP, SIMPLELINE, SL, LINE, DOUBLELINE, DL, TRIANGLE,
      << "B", "o", "x" >> }

\* the other arguments of print_matrix
MatrixInputs ==
    { [matrix |-> << << << "1" >>, << "2", "2" >> >>, << << "N", "o", "n", "e" >>, <<>> >> >>,
       header |-> All, indexes |-> All, nan_format |-> << "-" >>, color |-> <<>>,
       color_index |-> <<>>, color_style |-> <<>>, withlvl |-> TRUE],
      [matrix |-> << << << "x" >> >> >>,
       header |-> List(<< << "h", "d" >> >>), indexes |-> NoList, nan_format |-> <<>>,
       color |-> RED, color_index |-> ULTRA, color_style |-> <<>>, withlvl |-> FALSE],
      [matrix |-> << << << "7" >>, << "n", "a", "n" >> >> >>,
       header |-> NoList, indexes |-> List(<< << "r" >> >>), nan_format |-> <<>>,
       color |-> None, color_index |-> <<>>, color_style |-> <<>>, withlvl |-> TRUE],
      [matrix |-> << << << "1" >>, <<>> >> >>,
       header |-> NoList, indexes |-> NoList, nan_format |-> << "-", "-" >>,
       color |-> <<>>, color_index |-> <<>>, color_style |-> <<>>, withlvl |-> FALSE] }

\* init, with the arguments that matter to colours
Configure ==
    \E u \in BodyUnits, ar \in BOOLEAN :
        /\ Made(Call("init", [clear |-> FALSE, indentation_type |-> u,
                              indentation_size |-> 1, autoreset_colors |-> ar]))
        /\ Book(GhostInit(u, 1), <<>>, NoMatch)
        /\ UNCHANGED << facade, facade_out, language, calls >>

PrintlnStyled ==
    \E names \in NameTriples, reset_all_colors \in BOOLEAN, withlvl \in BOOLEAN :
        /\ Made(Call("println", PrintlnCall(<< Text >>, << NL >>, withlvl, names[1], names[2],
                                            reset_all_colors, names[3], << " " >>)))
        /\ Book(ghost, opened, NoMatch)
        /\ UNCHANGED << facade, facade_out, language, calls >>

WarningStyled ==
    \E names \in NameTriples :
        /\ Made(Call("warning", [message |-> << Text >>, color |-> names[1],
                                 bg_color |-> names[2], style |-> names[3]]))
        /\ Book(ghost, opened, NoMatch)
        /\ UNCHANGED << facade, facade_out, language, calls >>

ErrorStyled ==
    \E names \in NameTriples :
        /\ Made(Call("error", [message |-> << Text >>, color |-> names[1],
                               bg_color |-> names[2], style |-> names[3]]))
        /\ Book(ghost, opened, NoMatch)
        /\ UNCHANGED << facade, facade_out, language, calls >>

LineStyled ==
    \E names \in NameTriples :
        /\ Made(Call("line", [size |-> 2, style |-> << "-", " " >>, color |-> names[1],
                              bg_color |-> names[2], style_text |-> names[3]]))
        /\ Book(ghost, opened, NoMatch)
        /\ UNCHANGED << facade, facade_out, language, calls >>

StartBlockStyled ==
    \E names \in NameTriples :
        /\ Len(config.indentation_lvl) < MaxDepth
        /\ Made(Call("start_block",
                     [message |-> << Title >>, color |-> names[1], bg_color |-> names[2]]))
        /\ Book(GhostAdd(ghost), opened, NoMatch)
        /\ UNCHANGED << facade, facade_out, language, calls >>

EndBlockStyled ==
    \E names \in NameTriples :
        /\ Made(Call("end_block", [message |-> << Title >>, color |-> names[1],
                                   bg_color |-> names[2], style |-> names[3]]))
        /\ Book(GhostDel(ghost), opened, NoMatch)
        /\ UNCHANGED << facade, facade_out, language, calls >>

Textbox ==
    \E border \in Borders, names \in NameTriples, t \in TextboxInputs :
        /\ Made(Call("textbox",
                     [message |-> t.message, withlvl |-> t.withlvl,
                      color |-> names[1], bg_color |-> names[2],
                      reset_all_colors |-> t.reset_all_colors, style |-> names[3],
                      sep |-> << " " >>, border |-> border, border_color |-> names[1],
                      border_style |-> names[3]]))
        /\ Book(ghost, opened, NoMatch)
        /\ UNCHANGED << facade, facade_out, language, calls >>

PrintMatrix ==
    \E style \in MatrixStyles, a \in MatrixInputs :
        /\ Made(Call("print_matrix",
                     [matrix |-> a.matrix, header |-> a.header, indexes |-> a.indexes,
                      style |-> style, nan_format |-> a.nan_format, color |-> a.color,
                      color_index |-> a.color_index, color_style |-> a.color_style,
                      withlvl |-> a.withlvl]))
        /\ Book(ghost, opened, NoMatch)
        /\ UNCHANGED << facade, facade_out, language, calls >>

NextRender ==
    \/ Configure
    \/ PrintlnStyled
    \/ WarningStyled
    \/ ErrorStyled
    \/ LineStyled
    \/ StartBlockStyled
    \/ EndBlockStyled
    \/ Textbox
    \/ PrintMatrix

SpecRender == Init /\ [][NextRender]_vars

(***************************************************************************)
(* Properties of SpecBlock.                                                *)
(***************************************************************************)
\* C8: a call of a function wrapped by block(title) prints the start-block line and
\* a blank line before the wrapped function runs, and, when the function returns,
\* a blank line, the end-block line and end_block's blank line; the call returns
\* exactly the value the wrapped function returned.
C8_BlockOrdering ==
    LET mb     == IF call.name = "block_enter" THEN call.a.message_block
                  ELSE closed.message_block
        title  == IF ~mb.dict THEN << "T", "I" >>
                  ELSE IF language = "en" THEN << "E", "N" >> ELSE << "E", "S" >>
        smark  == IF language = "en" THEN << "S", "T", "A", "R", "T" >>
                  ELSE << "I", "N", "I", "C", "I", "A" >>
        emark  == IF language = "en" THEN << "E", "N", "D" >>
                  ELSE << "T", "E", "R", "M", "I", "N", "A" >>
        blue   == << ESC, "[", "3", "4", "m" >>
        plain  == << ESC, "[", "0", "m" >>
        blank  == plain \o << NL >>
        at     == IF pre.is_init THEN pre.indentation_lvl ELSE <<>>
    IN  /\ call.name = "block_enter" =>
              /\ out = blue \o at \o smark \o << " " >> \o title \o plain \o << NL >>
                         \o blank
              /\ exc = NoException
              /\ Len(calls) >= 1
        /\ call.name = "block_return" =>
              /\ out = blank
                         \o blue \o config.indentation_lvl \o emark \o << " " >> \o title
                         \o plain \o << NL >>
                         \o blank
              /\ exc = NoException
              /\ ret = call.a.value

\* an inner call, titled by a dict read in Spanish, has returned a value at a deeper
\* indentation
C8_Witness ==
    /\ call.name = "block_return"
    /\ closed.message_block.dict
    /\ language = "es"
    /\ ret = << "x" >>
    /\ Len(calls) = 1
    /\ config.indentation_lvl # <<>>

\* C9, as the claim states it, for calls made on an Initialized configuration: when
\* a block-wrapped operation returns normally, the current indentation is the one
\* before the call, whatever the wrapped operation did.
C9_Regardless ==
    (call.name = "block_return" /\ closed.was_init)
        => config.indentation_lvl = closed.before

\* C9 (amended): when a block-wrapped operation returns normally, having left the
\* configuration as it found it, and the call was made on an Initialized
\* configuration (or with an empty indentation), the current indentation is the
\* one before the call.
C9_BlockNesting ==
    ( /\ call.name = "block_return"
      /\ closed.neutral
      /\ closed.was_init \/ closed.before = <<>> )
        => config.indentation_lvl = closed.before

\* an inner call made at a non-empty indentation has returned
C9_Witness ==
    /\ call.name = "block_return"
    /\ closed.neutral
    /\ closed.was_init
    /\ closed.before # <<>>
    /\ Len(calls) = 1
    /\ pre.indentation_lvl # closed.before
    /\ config.indentation_lvl = closed.before

\* C10, as the claim states it: when the wrapped operation raises, the current
\* indentation is exactly one level deeper than before the call.
C10_OneLevelDeeper ==
    call.name = "block_raise" =>
        config.indentation_lvl
          = closed.before \o Repeat(config.indentation_type, config.indentantion_size)

\* C10 (amended): when the wrapped operation raises, the exception reaches the
\* caller, nothing of end_block is printed and the configuration is left as the
\* wrapped operation left it; when moreover the call was made on an Initialized
\* configuration (or with an empty indentation) and the wrapped operation left the
\* configuration as it found it, the current indentation is exactly one level
\* deeper than before the call, and stays so while only print operations follow.
C10_ExceptionInBlock ==
    LET level     == Repeat(config.indentation_type, config.indentantion_size)
        Deeper(f) == ( /\ f.neutral
                       /\ f.was_init \/ f.before = <<>> )
                         => config.indentation_lvl = f.before \o level
    IN  /\ call.name = "block_raise" =>
              /\ exc = call.a.e
              /\ out = <<>>
              /\ config = pre
              /\ Deeper(closed)
        /\ unbalanced.valid => Deeper(unbalanced)

\* a blank line is printed after an exception left a call made at a non-empty
\* indentation
C10_Witness ==
    /\ call.name = "new_line"
    /\ unbalanced.valid
    /\ unbalanced.neutral
    /\ unbalanced.was_init
    /\ unbalanced.before # <<>>
    /\ out # <<>>
    /\ Len(config.indentation_lvl) > Len(unbalanced.before)

(***************************************************************************)
(* Properties of SpecRender.                                               *)
(***************************************************************************)
\* C4: println ends its emission with the reset sequence (before endl) whenever
\* reset_all_colors is true or the configuration's autoreset_colors flag is true.
C4_Autoreset ==
    LET tail == reset \o call.a.endl
    IN  ( /\ call.name = "println"
          /\ exc = NoException
          /\ call.a.reset_all_colors \/ config.autoreset_colors )
            => ( /\ Len(out) >= Len(tail)
                 /\ SubSeq(out, Len(out) - Len(tail) + 1, Len(out)) = tail )

\* C5: an output operation called with a non-empty colour, background or style
\* name that is in none of the tables raises a console error to its caller and
\* prints nothing.
C5_UnknownNamesRaise ==
    LET unknown(table, name) ==
            name # <<>> /\ name # None /\ upper(name) \notin DOMAIN table
        colours == IF call.name = "print_matrix"
                     THEN { call.a.color, call.a.color_index, call.a.color_style }
                   ELSE IF call.name = "textbox"
                     THEN { call.a.color, call.a.border_color }
                   ELSE { call.a.color }
        grounds == IF call.name = "print_matrix" THEN {} ELSE { call.a.bg_color }
        styles  == IF call.name = "line" THEN { call.a.style_text }
                   ELSE IF call.name = "textbox"
                     THEN { call.a.style, call.a.border_style }
                   ELSE IF call.name \in { "print_matrix", "start_block" } THEN {}
                   ELSE { call.a.style }
    IN  ( /\ call.name \in { "println", "warning", "error", "line", "start_block",
                             "end_block", "textbox", "print_matrix" }
          /\ \/ \E name \in colours : unknown(COLORS, name)
             \/ \E name \in grounds : unknown(BACKGROUNDS, name)
             \/ \E name \in styles : unknown(STYLES, name) )
            => ( /\ exc # NoException
                 /\ exc.type \in { "ErrorNotDefinedStyle", "ErrorNotDefinedBorderStyle",
                                   "ErrorNotDefinedColor" }
                 /\ out = <<>> )

\* C6: print_matrix called with a style it does not know raises ErrorNotDefinedStyle
\* carrying exactly the style the caller gave, and prints nothing.
C6_UnknownMatrixStyle ==
    ( /\ call.name = "print_matrix"
      /\ call.a.style \notin { None, BOX, SEMIBOX, NUMPY, NP, SIMPLELINE, SL, LINE,
                               DOUBLELINE, DL } )
        => ( /\ exc = Raise("ErrorNotDefinedStyle", call.a.style)
             /\ out = <<>> )

\* C7: textbox called with a border other than 'simpleline' and 'doubleline' raises
\* ErrorNotDefinedBorderStyle carrying the border the caller gave, and prints
\* nothing.
C7_UnknownBorder ==
    ( /\ call.name = "textbox"
      /\ call.a.border \notin { SIMPLELINE, DOUBLELINE } )
        => ( /\ exc = Raise("ErrorNotDefinedBorderStyle", call.a.border)
             /\ out = <<>> )

(***************************************************************************)
(* Properties of Spec: init and reset_config.                              *)
(***************************************************************************)
\* C11: from any state, init(clear, indentation_type, indentation_size,
\* autoreset_colors) leaves the unit, the depth size and the autoreset flag it was
\* given, an empty indentation and an Initialized configuration, prints nothing and
\* raises nothing.
C11_ExplicitInit ==
    call.name = "init" =>
        /\ config = [ indentation_type   |-> call.a.indentation_type,
                      indentation_lvl    |-> <<>>,
                      indentantion_size  |-> call.a.indentation_size,
                      is_init            |-> TRUE,
                      autoreset_colors   |-> call.a.autoreset_colors ]
        /\ out = <<>>
        /\ exc = NoException

\* init was called mid-run, on an Initialized configuration at a non-empty
\* indentation, with another unit, another size and another autoreset flag
C11_Witness ==
    /\ call.name = "init"
    /\ pre.is_init
    /\ pre.indentation_lvl # <<>>
    /\ pre.indentation_type # call.a.indentation_type
    /\ pre.indentantion_size # call.a.indentation_size
    /\ pre.autoreset_colors # call.a.autoreset_colors
    /\ config.indentation_lvl = <<>>

\* C12: from any state, reset_config leaves the unit ' ', the depth size 2, the
\* autoreset flag true, an empty indentation and an Uninitialized configuration;
\* a print made on the configuration it leaves initializes it again, without
\* clearing the screen.
C12_ResetConfig ==
    LET defaults == [ indentation_type   |-> << " " >>,
                      indentation_lvl    |-> <<>>,
                      indentantion_size  |-> 2,
                      is_init            |-> FALSE,
                      autoreset_colors   |-> TRUE ]
    IN  /\ call.name = "reset_config" =>
              (config = defaults /\ out = <<>> /\ exc = NoException /\ cleared = 0)
        /\ (call.name \in PrintFamily /\ pre = defaults) =>
              /\ config.is_init
              /\ cleared = 0
              /\ config.indentation_type = << " " >>
              /\ config.indentantion_size = 2
              /\ config.autoreset_colors

\* reset_config was called on an Initialized configuration whose four fields all
\* differ from the defaults
C12_Witness ==
    /\ call.name = "reset_config"
    /\ pre.is_init
    /\ pre.indentation_lvl # <<>>
    /\ pre.indentation_type # << " " >>
    /\ pre.indentantion_size # 2
    /\ ~pre.autoreset_colors
    /\ ~config.is_init

(***************************************************************************)
(* Programs that configure the console and print progress bars.            *)
(***************************************************************************)
\* progress arguments: out of range on both sides, the two ends and values between
Fractions ==
    { Fraction(-1, 8), Fraction(0, 1), Fraction(1, 8), Fraction(1, 2), Fraction(1, 1),
      Fraction(9, 8) }

Widths == (-1)..MaxWidth

\* (bar, start_bar, end_bar, spacing) arguments
Glyphs ==
    { << << "#" >>, << "[" >>, << "]" >>, << "." >> >>,
      << << "=" >>, << "<" >>, << ">" >>, << "-", " " >> >>,
      << << "#", "#" >>, << "[" >>, << "]" >>, << "." >> >>,
      << << "#" >>, << "[", "[" >>, << "]" >>, << "." >> >>,
      << << "#" >>, << "[" >>, <<>>, << "." >> >> }

\* keyword arguments handed on to println: none, and some
KwargsGiven ==
    { Kwargs(<< NL >>, TRUE, <<>>, <<>>, TRUE, <<>>, << " " >>),
      Kwargs(<<>>, FALSE, RED, <<>>, FALSE, <<>>, << " " >>) }

ProgressBar ==
    \E progress \in Fractions, width \in Widths, g \in Glyphs, pct \in BOOLEAN,
       kwargs \in KwargsGiven :
        /\ Made(Call("progress_bar",
                     [progress |-> progress, width |-> width, bar |-> g[1],
                      start_bar |-> g[2], end_bar |-> g[3], spacing |-> g[4],
                      pct |-> pct, kwargs |-> kwargs]))
        /\ Book(ghost, opened, NoMatch)
        /\ UNCHANGED << facade, facade_out, language, calls >>

NextBar ==
    \/ ResetConfig
    \/ AddLvl
    \/ ProgressBar

SpecBar == Init /\ [][NextBar]_vars

(***************************************************************************)
(* Properties of SpecBar.                                                  *)
(***************************************************************************)
\* C13: progress_bar raises ValueError when progress < 0 or progress > 1, when
\* width < 0, or when bar, start_bar or end_bar is not exactly one character; it
\* then prints nothing and leaves the configuration, the initialized flag
\* included, as it found it.
C13_ValidateThenAct ==
    LET a   == call.a
        bad == \/ a.progress.num < 0
               \/ a.progress.num > a.progress.den
               \/ a.width < 0
               \/ Len(a.bar) # 1
               \/ Len(a.start_bar) # 1
               \/ Len(a.end_bar) # 1
    IN  (call.name = "progress_bar" /\ bad) =>
            /\ exc.type = "ValueError"
            /\ out = <<>>
            /\ cleared = 0
            /\ config = pre

\* a valid progress and width with a two-character bar, on an Uninitialized
\* configuration that holds some indentation
C13_Witness ==
    /\ call.name = "progress_bar"
    /\ call.a.progress = Fraction(1, 2)
    /\ call.a.width = 3
    /\ Len(call.a.bar) = 2
    /\ Len(call.a.start_bar) = 1
    /\ Len(call.a.end_bar) = 1
    /\ ~pre.is_init
    /\ pre.indentation_lvl # <<>>
    /\ exc.type = "ValueError"

\* C14: for a valid progress in [0, 1] and width >= 0, with one-character bar,
\* start_bar and end_bar, progress_bar prints start_bar, floor(progress * width)
\* bar glyphs, width - floor(progress * width) spacing glyphs, end_bar and, if pct,
\* ' (NN%)' with NN = floor(progress * 100), as println prints a line.
C14_Rendering ==
    LET a      == call.a
        valid  == /\ a.progress.num >= 0
                  /\ a.progress.num <= a.progress.den
                  /\ a.width >= 0
                  /\ Len(a.bar) = 1
                  /\ Len(a.start_bar) = 1
                  /\ Len(a.end_bar) = 1
        filled == CHOOSE f \in 0..a.width :
                      /\ f * a.progress.den <= a.progress.num * a.width
                      /\ a.progress.num * a.width < (f + 1) * a.progress.den
        NN     == CHOOSE n \in 0..100 :
                      /\ n * a.progress.den <= a.progress.num * 100
                      /\ a.progress.num * 100 < (n + 1) * a.progress.den
        digits == IF NN = 100 THEN << "1", "0", "0" >>
                  ELSE IF NN >= 10 THEN << Digit[(NN \div 10) + 1], Digit[(NN % 10) + 1] >>
                  ELSE << Digit[NN + 1] >>
        bars   == [i \in 1..filled |-> a.bar[1]]
        gaps   == [i \in 1..((a.width - filled) * Len(a.spacing)) |->
                      a.spacing[((i - 1) % Len(a.spacing)) + 1]]
        suffix == IF a.pct THEN << " ", "(" >> \o digits \o << "%", ")" >> ELSE <<>>
        lvl    == IF a.kwargs.withlvl THEN config.indentation_lvl ELSE <<>>
        colour == IF a.kwargs.color = <<>> THEN <<>> ELSE << ESC, "[", "3", "1", "m" >>
        tail   == (IF a.kwargs.reset_all_colors THEN << ESC, "[", "0", "m" >> ELSE <<>>)
                    \o a.kwargs.endl
    IN  (call.name = "progress_bar" /\ valid) =>
            /\ exc = NoException
            /\ out = colour \o lvl \o a.start_bar \o bars \o gaps \o a.end_bar \o suffix
                       \o tail
            /\ (a.progress.num = 0 => filled = 0 /\ NN = 0)
            /\ (a.progress.num = a.progress.den => filled = a.width /\ NN = 100)

\* half of a width of 3 is printed with its percentage, at some indentation
C14_Witness ==
    /\ call.name = "progress_bar"
    /\ exc = NoException
    /\ call.a.progress = Fraction(1, 2)
    /\ call.a.width = 3
    /\ call.a.pct
    /\ call.a.kwargs.withlvl
    /\ config.indentation_lvl # <<>>
    /\ out # <<>>

\* C29: in the line a call of progress_bar that passes validation prints, exactly
\* width characters stand between start_bar and end_bar, whatever the progress and
\* the spacing.
C29_BarLength ==
    LET a      == call.a
        NN     == CHOOSE n \in 0..100 :
                      /\ n * a.progress.den <= a.progress.num * 100
                      /\ a.progress.num * 100 < (n + 1) * a.progress.den
        digits == IF NN = 100 THEN 3 ELSE IF NN >= 10 THEN 2 ELSE 1
        suffix == IF a.pct THEN digits + 4 ELSE 0
        first  == (IF a.kwargs.color = <<>> THEN 0 ELSE 5)
                    + (IF a.kwargs.withlvl THEN Len(config.indentation_lvl) ELSE 0) + 1
        tail   == (IF a.kwargs.reset_all_colors THEN 4 ELSE 0) + Len(a.kwargs.endl)
    IN  (call.name = "progress_bar" /\ exc = NoException) =>
            /\ Len(out) = first + a.width + 1 + suffix + tail
            /\ out[first] = a.start_bar[1]
            /\ out[first + a.width + 1] = a.end_bar[1]

(***************************************************************************)
(* Properties of SpecRender: matrices.                                     *)
(***************************************************************************)
\* C15: print_matrix with style 'semibox' prints the header row and the top
\* divider that style 'box' prints, then the data rows, and one blank line after
\* the last data row where 'box' prints its closing divider: the blank line is
\* not before the header or the rows.
C15_SemiboxOrdering ==
    LET a      == call.a
        box    == print_matrix(pre, a.matrix, a.header, a.indexes, BOX, a.nan_format,
                               a.color, a.color_index, a.color_style, a.withlvl).out
        \* the header row, if there is one, and the top divider
        above  == IF a.header = NoList THEN 1 ELSE 2
        ends   == { i \in 1..Len(box) : box[i] = NL }
        head   == CHOOSE i \in ends : Cardinality({ j \in ends : j <= i }) = above
        blank  == new_line(config).out
    IN  (call.name = "print_matrix" /\ call.a.style = SEMIBOX /\ exc = NoException) =>
            /\ Len(out) > head + Len(blank)
            /\ SubSeq(out, 1, head) = SubSeq(box, 1, head)
            /\ SubSeq(out, Len(out) - Len(blank) + 1, Len(out)) = blank
            /\ out[Len(out) - Len(blank)] = NL

\* C16: in every style, every data cell and every header label that print_matrix
\* prints is a field of cellWidth + 2 characters, cellWidth being the greatest
\* length among the cells, a cell 'None', 'nan' or 'NaN' counting as nan_format,
\* and the header labels; empty cells and any nan_format included.
C16_CellFieldWidth ==
    LET a       == call.a
        markers == { << "N", "o", "n", "e" >>, << "n", "a", "n" >>, << "N", "a", "N" >> }
        shown(cell) == IF cell \in markers THEN a.nan_format ELSE cell
        header1 == IF a.header = All THEN range_labels(Len(a.matrix[1])) ELSE a.header
        widths  == { Len(shown(a.matrix[i][j])) :
                       i \in DOMAIN a.matrix, j \in DOMAIN a.matrix[1] }
                     \cup { Len(header1.items[j]) : j \in DOMAIN header1.items }
        cellWidth == CHOOSE w \in widths : \A v \in widths : v <= w
        \* the width print_matrix hands to its rows and its header
        mlv     == Max(max_len_value(a.matrix, a.nan_format),
                       max_len_value_of(header1.items, a.nan_format))
        row(i)  == print_matrix_row(a.matrix[i], mlv, a.color, a.nan_format, a.color_style,
                                    a.color_index, <<>>, <<>>, <<>>, <<>>)
        labels  == print_matrix_header(pre, header1.items, 0, a.color_index, <<>>,
                                       a.withlvl, mlv, 0)
    IN  (call.name = "print_matrix" /\ exc = NoException /\ out # <<>>) =>
            /\ \A i \in DOMAIN a.matrix : \A j \in DOMAIN a.matrix[i] :
                   Len(row(i)[3 + j].message[1]) = cellWidth + 2
            /\ \A j \in DOMAIN header1.items :
                   Len(labels[1 + j].message[1]) = cellWidth + 2

\* C17: a matrix cell whose text is 'None', 'nan' or 'NaN' is printed as
\* nan_format, never as the marker itself, and every other cell is printed as its
\* own text.
C17_NanSubstitution ==
    LET a       == call.a
        markers == { << "N", "o", "n", "e" >>, << "n", "a", "n" >>, << "N", "a", "N" >> }
        header1 == IF a.header = All THEN range_labels(Len(a.matrix[1])) ELSE a.header
        mlv     == Max(max_len_value(a.matrix, a.nan_format),
                       max_len_value_of(header1.items, a.nan_format))
        row(i)  == print_matrix_row(a.matrix[i], mlv, a.color, a.nan_format, a.color_style,
                                    a.color_index, <<>>, <<>>, <<>>, <<>>)
        text(cell) == IF cell \in markers THEN a.nan_format ELSE cell
    IN  (call.name = "print_matrix" /\ exc = NoException /\ out # <<>>) =>
            \A i \in DOMAIN a.matrix : \A j \in DOMAIN a.matrix[i] :
                row(i)[3 + j].message[1] = << " " >> \o Center(text(a.matrix[i][j]), mlv) \o << " " >>

\* C30: every line print_matrix prints (header row, dividers, data rows) is, with
\* withlvl=True, the current indentation followed by the line the same call prints
\* at the empty indentation, in every style, and with withlvl=False that line
\* itself.
C30_IndentedOnce ==
    LET a       == call.a
        lvl     == IF a.withlvl THEN config.indentation_lvl ELSE <<>>
        flat    == Run([config EXCEPT !.indentation_lvl = <<>>], language, call).out
        \* a printed line without its escape sequences
        visible(s) ==
            LET esc(i) == \E j \in 1..i : s[j] = ESC /\ \A k \in j..(i - 1) : s[k] # "m"
                upto[i \in 0..Len(s)] ==
                    IF i = 0 THEN <<>>
                    ELSE IF esc(i) THEN upto[i - 1] ELSE Append(upto[i - 1], s[i])
            IN  upto[Len(s)]
        lines   == [i \in DOMAIN split(out) |-> visible(split(out)[i])]
        bare    == [i \in DOMAIN split(flat) |-> visible(split(flat)[i])]
    IN  (call.name = "print_matrix" /\ exc = NoException) =>
            /\ Len(lines) = Len(bare)
            /\ \A i \in DOMAIN lines :
                   lines[i] = (IF bare[i] = <<>> THEN <<>> ELSE lvl \o bare[i])

(***************************************************************************)
(* Properties of SpecRender: text boxes.                                   *)
(***************************************************************************)
\* C18, as claimed: for a message of L >= 1 lines, the longest of length M,
\* textbox prints L + 4 lines of visible width M + 4 each; the first and the last
\* begin and end with the corner glyphs of the border, and every content row
\* begins and ends with the vertical glyph.
C18_FrameOnly ==
    LET a      == call.a
        text   == split(to_string(a.message, a.sep))
        L      == Len(text)
        M      == CHOOSE m \in { Len(text[i]) : i \in 1..L } : \A i \in 1..L : Len(text[i]) <= m
        simple == a.border = SIMPLELINE
        printed == split(out)
        \* a printed line without its escape sequences
        visible(s) ==
            LET esc(i) == \E j \in 1..i : s[j] = ESC /\ \A k \in j..(i - 1) : s[k] # "m"
                upto[i \in 0..Len(s)] ==
                    IF i = 0 THEN <<>>
                    ELSE IF esc(i) THEN upto[i - 1] ELSE Append(upto[i - 1], s[i])
            IN  upto[Len(s)]
        lines  == [i \in DOMAIN printed |-> visible(printed[i])]
    IN  (call.name = "textbox" /\ exc = NoException) =>
            /\ Len(lines) = L + 5
            /\ lines[L + 5] = <<>>
            /\ \A i \in 1..(L + 4) : Len(lines[i]) = M + 4
            /\ lines[1][1] = (IF simple THEN Line.STL ELSE Line.DTL)
            /\ lines[1][M + 4] = (IF simple THEN Line.STR ELSE Line.DTR)
            /\ lines[L + 4][1] = (IF simple THEN Line.SBL ELSE Line.DBL)
            /\ lines[L + 4][M + 4] = (IF simple THEN Line.SBR ELSE Line.DBR)
            /\ \A i \in 3..(L + 2) :
                   /\ lines[i][1] = (IF simple THEN Line.SV ELSE Line.DV)
                   /\ lines[i][M + 4] = (IF simple THEN Line.SV ELSE Line.DV)

\* C18, amended: textbox prints L + 4 lines; each is the current indentation, when
\* withlvl is true, followed by a frame line of visible width M + 4: the top edge,
\* a blank interior row, the L content rows, a blank interior row and the bottom
\* edge.  The edges carry the corner glyphs of the border, and a content row is
\* the vertical glyph, one space, the line padded to M, one space, the vertical
\* glyph.
C18_TextBoxFraming ==
    LET a      == call.a
        text   == split(to_string(a.message, a.sep))
        L      == Len(text)
        M      == CHOOSE m \in { Len(text[i]) : i \in 1..L } : \A i \in 1..L : Len(text[i]) <= m
        simple == a.border = SIMPLELINE
        V      == IF simple THEN Line.SV ELSE Line.DV
        H      == IF simple THEN Line.SH ELSE Line.DH
        lvl    == IF a.withlvl THEN config.indentation_lvl ELSE <<>>
        printed == split(out)
        \* a printed line without its escape sequences
        visible(s) ==
            LET esc(i) == \E j \in 1..i : s[j] = ESC /\ \A k \in j..(i - 1) : s[k] # "m"
                upto[i \in 0..Len(s)] ==
                    IF i = 0 THEN <<>>
                    ELSE IF esc(i) THEN upto[i - 1] ELSE Append(upto[i - 1], s[i])
            IN  upto[Len(s)]
        lines  == [i \in DOMAIN printed |-> visible(printed[i])]
        frame(i) == SubSeq(lines[i], Len(lvl) + 1, Len(lines[i]))
        blank  == << V >> \o [k \in 1..(M + 2) |-> " "] \o << V >>
    IN  (call.name = "textbox" /\ exc = NoException) =>
            /\ Len(lines) = L + 5
            /\ lines[L + 5] = <<>>
            /\ \A i \in 1..(L + 4) :
                   /\ SubSeq(lines[i], 1, Len(lvl)) = lvl
                   /\ Len(frame(i)) = M + 4
            /\ frame(1) = << IF simple THEN Line.STL ELSE Line.DTL >>
                            \o [k \in 1..(M + 2) |-> H]
                            \o << IF simple THEN Line.STR ELSE Line.DTR >>
            /\ frame(2) = blank
            /\ \A i \in 1..L :
                   frame(i + 2) = << V, " " >> \o text[i]
                                    \o [k \in 1..(M - Len(text[i])) |-> " "] \o << " ", V >>
            /\ frame(L + 3) = blank
            /\ frame(L + 4) = << IF simple THEN Line.SBL ELSE Line.DBL >>
                                \o [k \in 1..(M + 2) |-> H]
                                \o << IF simple THEN Line.SBR ELSE Line.DBR >>

\* a two-line message, the second line shorter than the first, boxed in colour at
\* some indentation
C18_Witness ==
    /\ call.name = "textbox"
    /\ exc = NoException
    /\ call.a.message = << << "a", "b", NL, "c" >> >>
    /\ call.a.withlvl
    /\ call.a.color # <<>>
    /\ config.indentation_lvl # <<>>
    /\ out # <<>>

(***************************************************************************)
(* Properties of Spec: the language of the block markers.                  *)
(***************************************************************************)
\* C19: the line start_block(title) prints is the indentation println applies,
\* the start marker of the language selected when the call is made ('START' for
\* en, 'INICIA' for es), one space and the title in upper case; end_block does the
\* same with 'END' and 'TERMINA'.  The marker depends on that language only.
C19_LanguageSwitch ==
    LET started == call.name = "start_block"
        marker  == IF started
                     THEN IF language = "en" THEN << "S", "T", "A", "R", "T" >>
                          ELSE << "I", "N", "I", "C", "I", "A" >>
                     ELSE IF language = "en" THEN << "E", "N", "D" >>
                          ELSE << "T", "E", "R", "M", "I", "N", "A" >>
        \* start_block prints before it adds its level, end_block after it removed one
        lvl     == IF ~started THEN config.indentation_lvl
                   ELSE IF pre.is_init THEN pre.indentation_lvl ELSE <<>>
        title   == upper(to_string(call.a.message, << " " >>))
        printed == split(out)
        visible(s) ==
            LET esc(i) == \E j \in 1..i : s[j] = ESC /\ \A k \in j..(i - 1) : s[k] # "m"
                upto[i \in 0..Len(s)] ==
                    IF i = 0 THEN <<>>
                    ELSE IF esc(i) THEN upto[i - 1] ELSE Append(upto[i - 1], s[i])
            IN  upto[Len(s)]
    IN  (call.name \in { "start_block", "end_block" } /\ exc = NoException) =>
            /\ Len(printed) >= 2
            /\ visible(printed[1]) = lvl \o marker \o << " " >> \o title
            /\ title = << "T", "I" >>

\* a block is started in Spanish at some indentation
C19_Witness ==
    /\ call.name = "start_block"
    /\ language = "es"
    /\ exc = NoException
    /\ pre.is_init
    /\ pre.indentation_lvl # <<>>
    /\ out # <<>>

(***************************************************************************)
(* Programs that print in colours named in any letter case.                *)
(***************************************************************************)
\* the eight colour names in upper case, in lower case and capitalised
ColourNames ==
    { << "B", "L", "A", "C", "K" >>, << "b", "l", "a", "c", "k" >>, << "B", "l", "a", "c", "k" >>,
      << "R", "E", "D" >>, << "r", "e", "d" >>, << "R", "e", "d" >>,
      << "G", "R", "E", "E", "N" >>, << "g", "r", "e", "e", "n" >>, << "G", "r", "e", "e", "n" >>,
      << "Y", "E", "L", "L", "O", "W" >>, << "y", "e", "l", "l", "o", "w" >>, << "Y", "e", "l", "l", "o", "w" >>,
      << "B", "L", "U", "E" >>, << "b", "l", "u", "e" >>, << "B", "l", "u", "e" >>,
      << "M", "A", "G", "E", "N", "T", "A" >>, << "m", "a", "g", "e", "n", "t", "a" >>, << "M", "a", "g", "e", "n", "t", "a" >>,
      << "C", "Y", "A", "N" >>, << "c", "y", "a", "n" >>, << "C", "y", "a", "n" >>,
      << "W", "H", "I", "T", "E" >>, << "w", "h", "i", "t", "e" >>, << "W", "h", "i", "t", "e" >> }

GroundNames ==
    { BG_BLUE, << "b", "g", "_", "b", "l", "u", "e" >> }

StyleNames ==
    { BOLD, << "B", "o", "l", "d" >> }

PrintlnNamed ==
    \E color \in ColourNames \cup { <<>> }, bg_color \in GroundNames \cup { <<>> },
       style \in StyleNames \cup { <<>> }, reset_all_colors \in BOOLEAN :
        /\ Made(Call("println", PrintlnCall(<< Text >>, << NL >>, FALSE, color, bg_color,
                                            reset_all_colors, style, << " " >>)))
        /\ Book(ghost, opened, NoMatch)
        /\ UNCHANGED << facade, facade_out, language, calls >>

NextColours ==
    \/ Configure
    \/ PrintlnNamed

SpecColours == Init /\ [][NextColours]_vars

\* C20: for each of the 8 colour names in any letter case,
\* _colorize(text, color, '', '', True) is ESC[<code>m, the text and ESC[0m, the
\* code being the colour's (31 for RED); in general the result is the sequences of
\* the colour, the background and the style, then the text, then ESC[0m exactly
\* when the reset flag is true, an empty name adding nothing.  println prints the
\* result of _colorize followed by endl.
C20_Colorize ==
    LET a      == call.a
        digit(name) ==
            CASE upper(name) = << "B", "L", "A", "C", "K" >> -> "0"
              [] upper(name) = << "R", "E", "D" >> -> "1"
              [] upper(name) = << "G", "R", "E", "E", "N" >> -> "2"
              [] upper(name) = << "Y", "E", "L", "L", "O", "W" >> -> "3"
              [] upper(name) = << "B", "L", "U", "E" >> -> "4"
              [] upper(name) = << "M", "A", "G", "E", "N", "T", "A" >> -> "5"
              [] upper(name) = << "C", "Y", "A", "N" >> -> "6"
              [] upper(name) = << "W", "H", "I", "T", "E" >> -> "7"
        fg     == IF a.color = <<>> THEN <<>> ELSE << ESC, "[", "3", digit(a.color), "m" >>
        bg     == IF a.bg_color = <<>> THEN <<>> ELSE << ESC, "[", "4", "4", "m" >>
        st     == IF a.style = <<>> THEN <<>> ELSE << ESC, "[", "1", "m" >>
        tail   == IF a.reset_all_colors THEN << ESC, "[", "0", "m" >> ELSE <<>>
        text   == to_string(a.message, a.sep)
    IN  ( /\ call.name = "println"
          /\ ~a.withlvl
          /\ a.color \in ColourNames \cup { <<>> }
          /\ a.bg_color \in GroundNames \cup { <<>> }
          /\ a.style \in StyleNames \cup { <<>> } ) =>
            /\ exc = NoException
            /\ out = fg \o bg \o st \o text \o tail \o a.endl
            /\ ( /\ upper(a.color) = << "R", "E", "D" >>
                 /\ a.bg_color = <<>>
                 /\ a.style = <<>>
                 /\ a.reset_all_colors ) =>
                   out = << ESC, "[", "3", "1", "m" >> \o text \o << ESC, "[", "0", "m" >>
                           \o a.endl

\* 'Red', written in neither case of the table, with a background and a style in
\* mixed case and no reset
C20_Witness ==
    /\ call.name = "println"
    /\ call.a.color = << "R", "e", "d" >>
    /\ call.a.bg_color = << "b", "g", "_", "b", "l", "u", "e" >>
    /\ call.a.style = << "B", "o", "l", "d" >>
    /\ ~call.a.reset_all_colors
    /\ exc = NoException
    /\ out # <<>>

(***************************************************************************)
(* Properties of Spec: horizontal rules.                                   *)
(***************************************************************************)
\* C21: line(size, style) builds the rule as style repeated size times, removes
\* its last character when that character is a space, and prints the rule and
\* then a blank line.
C21_RuleTrimming ==
    LET a     == call.a
        built == [i \in 1..(a.size * Len(a.style)) |-> a.style[((i - 1) % Len(a.style)) + 1]]
        rule  == IF built # <<>> /\ built[Len(built)] = " "
                   THEN SubSeq(built, 1, Len(built) - 1)
                   ELSE built
        off   == << ESC, "[", "0", "m" >>
    IN  (call.name = "line" /\ exc = NoException) =>
            out = config.indentation_lvl \o rule \o off \o << NL >> \o off \o << NL >>

(***************************************************************************)
(* Programs that call the functions of console.py and those of __init__.py *)
(***************************************************************************)
\* calls of the functions the two modules have in common
SharedCalls ==
    { Call("init", [clear |-> FALSE, indentation_type |-> u, indentation_size |-> 1,
                    autoreset_colors |-> ar]) :
        u \in { << "." >>, << "a", "b" >> }, ar \in BOOLEAN }
      \cup { Call("println", PrintlnCall(<< Text >>, << NL >>, withlvl, color, <<>>,
                                         reset_all_colors, <<>>, << " " >>)) :
               withlvl \in BOOLEAN, color \in { <<>>, RED }, reset_all_colors \in BOOLEAN }
      \cup { Call("add_lvl", NoArgs), Call("del_lvl", NoArgs), Call("new_line", NoArgs),
             Call("start_block", [message |-> << Title >>, color |-> BLUE,
                                  bg_color |-> <<>>]),
             Call("end_block", [message |-> << Title >>, color |-> BLUE, bg_color |-> <<>>,
                                style |-> <<>>]),
             Call("warning", [message |-> << Text >>, color |-> BLUE, bg_color |-> <<>>,
                              style |-> <<>>]),
             Call("error", [message |-> << Text >>, color |-> RED, bg_color |-> <<>>,
                            style |-> <<>>]),
             Call("line", [size |-> MaxLine, style |-> << "-", " " >>, color |-> <<>>,
                           bg_color |-> <<>>, style_text |-> <<>>]) }

\* the same call is made on console.py and then on __init__.py
Both ==
    \E k \in SharedCalls :
        \E r \in { Run(config, language, k) } :
            \E w \in { Facade(r.config, facade, language, k) } :
                /\ k.name \in { "add_lvl", "start_block" } => CanAdd
                /\ call' = k
                /\ config' = w.engine
                /\ pre' = config
                /\ out' = r.out
                /\ exc' = r.exc
                /\ cleared' = r.cleared
                /\ ret' = None
                /\ closed' = NoClosed
                /\ unbalanced' = NoUnbalanced
                /\ facade' = w.facade
                /\ facade_out' = w.out
                /\ Book(NoGhost, <<>>, NoMatch)
                /\ UNCHANGED << language, calls >>

SpecLockstep == Init /\ [][Both]_vars

\* a call of a function of __init__.py alone
FacadeCall ==
    \E k \in SharedCalls :
        \E w \in { Facade(config, facade, language, k) } :
            /\ Len(w.facade.indentation_lvl) <= MaxIndent
            /\ call' = Call("facade", k)
            /\ config' = w.engine
            /\ pre' = config
            /\ out' = <<>>
            /\ exc' = NoException
            /\ cleared' = 0
            /\ ret' = None
            /\ closed' = NoClosed
            /\ facade' = w.facade
            /\ facade_out' = w.out
            /\ UNCHANGED << language, calls, opened, ghost, matched, unbalanced >>

NextSurfaces ==
    \/ Configure
    \/ ResetConfig
    \/ AddLvl
    \/ DelLvl
    \/ Println
    \/ StartBlock
    \/ EndBlock
    \/ FacadeCall

SpecSurfaces == Init /\ [][NextSurfaces]_vars

(***************************************************************************)
(* Properties of SpecLockstep and SpecSurfaces.                            *)
(***************************************************************************)
\* C22: after every step of a program that makes each of its calls on console.py
\* and on __init__.py alike, the two have printed the same text and hold the same
\* indentation unit, depth size, autoreset flag and current indentation; a first
\* call that prints, and so initializes both, included.
C22_FacadeEquivalence ==
    /\ facade_out = out
    /\ facade.indentation_type = config.indentation_type
    /\ facade.indentantion_size = config.indentantion_size
    /\ facade.autoreset_colors = config.autoreset_colors
    /\ facade.indentation_lvl = config.indentation_lvl

\* C23: under every interleaving of calls of the two modules, a call of a
\* function of console.py changes no field of the ConsoleConfig of __init__.py, and
\* a call of a function of __init__.py changes no field of the _ConsoleConfig of
\* console.py.
C23_IndependentCopies ==
    [][ /\ call'.name = "facade" => config' = config
        /\ call'.name \in { "init", "reset_config", "add_lvl", "del_lvl", "println",
                            "start_block", "end_block" }
             => facade' = facade ]_vars

\* both modules have been called, and a level added through __init__.py is not in
\* the indentation of console.py
C23_Witness ==
    /\ call.name = "facade"
    /\ call.a.name = "add_lvl"
    /\ config.is_init
    /\ config.indentation_lvl # <<>>
    /\ facade.indentation_lvl # <<>>
    /\ facade.indentation_lvl # config.indentation_lvl
    /\ config = pre

(***************************************************************************)
(* Properties of Spec: the markers of a block.                             *)
(***************************************************************************)
\* C25 (as stated): start_block prints its START line at the indentation in effect
\* before the call and then adds one level; end_block removes one level and then
\* prints its END line and a blank line; the END line of a properly nested pair is
\* printed at the indentation of its START line, and a println between them one
\* level deeper.
C25_AnyPair ==
    LET level   == Repeat(config.indentation_type, config.indentantion_size)
        blue    == << ESC, "[", "3", "4", "m" >>
        plain   == << ESC, "[", "0", "m" >>
        START   == blue \o pre.indentation_lvl \o START_LANGS[language] \o << " ", "T", "I" >>
                     \o plain \o << NL >>
        END(at) == blue \o at \o END_LANGS[language] \o << " ", "T", "I" >> \o plain
                     \o << NL >> \o plain \o << NL >>
        top     == opened[Len(opened)]
    IN  /\ call.name = "start_block" =>
              /\ out = START
              /\ config.indentation_lvl = pre.indentation_lvl \o level
        /\ call.name = "end_block" =>
              /\ out = END(config.indentation_lvl)
              /\ matched.valid => out = END(matched.before)
        /\ (call.name = "println" /\ call.a.withlvl /\ opened # <<>>) =>
              out = top.before \o level \o Text \o plain \o << NL >>

\* C25 (amended): start_block prints its START line at the indentation in effect
\* before the call (the empty one when the configuration was Uninitialized) and
\* then adds one level; end_block removes indentation_size characters and then
\* prints its END line, at the indentation it leaves, and a blank line; when the
\* pair was opened on an Initialized configuration (or with an empty indentation)
\* whose indentation unit is a single character, the END line is printed at the
\* indentation of the START line and a println made inside the pair, outside any
\* inner pair, one level deeper.
C25_MarkerAlignment ==
    LET level    == Repeat(config.indentation_type, config.indentantion_size)
        blue     == << ESC, "[", "3", "4", "m" >>
        plain    == << ESC, "[", "0", "m" >>
        START(at) == blue \o at \o START_LANGS[language] \o << " ", "T", "I" >> \o plain
                       \o << NL >>
        END(at)  == blue \o at \o END_LANGS[language] \o << " ", "T", "I" >> \o plain
                       \o << NL >> \o plain \o << NL >>
        before   == IF pre.is_init THEN pre.indentation_lvl ELSE <<>>
        removed  == IF pre.is_init
                      THEN SliceTo(pre.indentation_lvl, 0 - pre.indentantion_size)
                    ELSE <<>>
        top      == opened[Len(opened)]
        plainly(f) == /\ f.was_init \/ f.before = <<>>
                      /\ Len(config.indentation_type) = 1
    IN  /\ call.name = "start_block" =>
              /\ out = START(before)
              /\ config.indentation_lvl = before \o level
        /\ call.name = "end_block" =>
              /\ out = END(removed)
              /\ config.indentation_lvl = removed
              /\ (matched.valid /\ plainly(matched)) => out = END(matched.before)
        /\ (call.name = "println" /\ call.a.withlvl /\ opened # <<>> /\ plainly(top)) =>
              out = top.before \o level \o Text \o plain \o << NL >>

\* a line is printed inside the inner pair of two nested pairs
C25_Witness ==
    /\ call.name = "println"
    /\ call.a.withlvl
    /\ Len(opened) = 2
    /\ opened[2].was_init
    /\ opened[2].before # <<>>
    /\ Len(config.indentation_type) = 1
    /\ Len(config.indentation_lvl) > Len(opened[2].before)
    /\ out # <<>>

C27_ClearCount ==
    /\ call.name = "init" => cleared = (IF call.a.clear THEN 1 ELSE 0)
    /\ call.name # "init" => cleared = 0

(***************************************************************************)
(* Properties of Spec: a level added and removed.                          *)
(***************************************************************************)
\* C28: whatever indentation unit and depth size the configuration holds, an
\* add_lvl followed immediately by a del_lvl leaves the current indentation as it
\* was before the add_lvl.
C28_AddRemoveIdentity ==
    [][ (call.name = "add_lvl" /\ call'.name = "del_lvl")
          => config'.indentation_lvl = pre.indentation_lvl ]_vars

(***************************************************************************)
(* Properties of Spec: removing levels.                                    *)
(***************************************************************************)
\* C24: del_lvl never raises and prints nothing; what it leaves as the current
\* indentation is what was there before the call cut at its end, so of no more
\* characters and never fewer than none; called on an empty indentation it leaves
\* it empty.
C24_UnbalancedRemoval ==
    (call.name = "del_lvl") =>
        /\ exc = NoException
        /\ out = <<>>
        /\ Len(config.indentation_lvl) <= Len(pre.indentation_lvl)
        /\ config.indentation_lvl = SubSeq(pre.indentation_lvl, 1, Len(config.indentation_lvl))
        /\ pre.indentation_lvl = <<>> => config.indentation_lvl = <<>>
        /\ config = [pre EXCEPT !.indentation_lvl = config.indentation_lvl]

\* a removal with nothing to remove, the unit being two characters taken three at
\* a time
C24_Witness ==
    /\ call.name = "del_lvl"
    /\ pre.is_init
    /\ pre.indentation_type = << "a", "b" >>
    /\ pre.indentantion_size = 3
    /\ pre.indentation_lvl = <<>>
    /\ config.indentation_lvl = <<>>
    /\ exc = NoException

====
